---- MODULE Spec2Model ----
(***************************************************************************)
(* Verification model of class-collector (Go): the snapshot/delta engine,  *)
(* the pointer builder, archive path sanitizing, the snapshot store, the   *)
(* command line driver and the bundle id.                                  *)
(*                                                                         *)
(* Each subsystem has its own variables, initial condition, next-state     *)
(* relation and specification; the variables of the other subsystems stay  *)
(* at their idle values.                                                   *)
(***************************************************************************)
EXTENDS Integers, Sequences, FiniteSets, TLC

VARIABLES
    \* ---- internal/cache delta engine ----
    prev,              \* previous snapshot handed to BuildDelta
    curr,              \* current snapshot handed to BuildDelta
    enableSimRename,   \* package variable, delta.go:24
    simThresh,         \* package variable, delta.go:25
    contentProvider,   \* package variable, content_provider.go:12
    dpc,               \* position of the delta caller: "config", "run1", "run2"
    delta,             \* result of the first BuildDelta call
    delta2,            \* result of a second BuildDelta call on the same input
    \* ---- internal/index pointer assembly ----
    idxPointers,       \* symbolsIndex.pointers: anchor pointers gathered so far
    idxSymbols,        \* symbolsIndex.symbols: symbols gathered so far
    filesDone,         \* number of walker files gatherSymbolsIndex has visited
    pointers,          \* Artifacts.Pointers after assembleArtifacts
    ipc,               \* "gather" while files are visited, "done" after assembly
    \* ---- archive entry names ----
    pathIn,            \* the raw entry name handed to the sanitizer
    goos,              \* build target: "linux" or "windows" (filepath.Separator)
    pathOut,           \* the sanitized entry name
    ppc,               \* "call" before the call, then the package that sanitized
    \* ---- internal/cache snapshot and blob store ----
    inodes,            \* file contents by inode number: [val, n] = payload, chunks written
    dirents,           \* the cache directory: file name -> inode number, 0 when absent
    cpc,               \* per process: position inside Save / SaveBlob
    call,              \* per process: the call it makes, [op, arg, hashOk]
    cfd,               \* per process: inode of the open temp file, 0 when none
    ctmp,              \* per process: name returned by createTempFile, "" when none
    cres,              \* per process: "none", or the returned error: "nil" / "err"
    lpc,               \* the reader: "idle", "open", "done"
    lfd,               \* inode the reader's os.ReadFile has open
    lres,              \* what Load returned: [kind, val]
    saved,             \* snapshots that have been passed to Save
    \* ---- cmd/class-collector ----
    args,              \* the command line, as parseFlags sees it
    mpc,               \* position of main
    exitCode,          \* process exit status, -1 while running
    effects,           \* side effects so far: cache cleared, blob, archive, snapshot
    oldCache,          \* entries of the cache directory left by earlier runs
    cache0,            \* oldCache when the run started
    steps,             \* the calls the run has made, in order, each with its outcome
    \* ---- bundle id ----
    man,               \* the manifest assembleArtifacts built
    man2,              \* another manifest
    bundleID,          \* ComputeBundleID(man)
    bundleID2,         \* ComputeBundleID(man2)
    bpc,               \* "built", "first", "second"
    \* ---- chat bundle messages ----
    chatMax,           \* maxChars of WriteChat
    chatClasses,       \* maxClasses of WriteChat
    chatLeft,          \* files of the order not yet written
    msg,               \* bytes written to the current chat message
    written,           \* writeChatMessages' count of characters written
    classes,           \* files put into the current message
    entries,           \* per entry of the current message: fences written
    chatN,             \* len(order)
    metaFiles,         \* meta.Files of the message being written, as ranks in order
    metas,             \* the messages finished, each its list of ranks
    chpc,              \* "next" between messages, "entry" inside one, "done"
    \* ---- FULL archive writer ----
    fullIn,            \* arguments of WriteFull: [bundleID, slices, pointers, emitSrc, bench, files]
    archive,           \* entries of the archive in emission order: [name, path]
    fpc,               \* position inside WriteFull: "core", "readme", "toc", "src", "bench", "done", "failed"
    \* ---- slices ----
    slIn,              \* arguments of BuildSlices: [anchors, totalLines, maxFileLines]
    slices,            \* the slices BuildSlices returned
    slpc,              \* "call" before BuildSlices, "done" after
    \* ---- auto anchors ----
    autoCfg,           \* the package-level auto anchor configuration
    auIn,              \* arguments of the BuildAutoAnchors call
    autoOut,           \* anchors BuildAutoAnchors returned
    aupc,              \* position of the auto anchor run
    \* ---- gatherSymbolsIndex ----
    gaIn,              \* arguments of gatherSymbolsIndex: files, langHints, maxFileLines
    gaManifest,        \* idx.manifest
    gaSymbols,         \* idx.symbols
    gaSlices,          \* idx.slices
    gaPointers,        \* idx.pointers
    gaDone,            \* files the loop has visited
    gapc,              \* position of gatherSymbolsIndex
    \* ---- MakeDiffs ----
    mdIn,              \* d.Changed as MakeDiffs receives it
    mdChanged,         \* d.Changed with DiffPath and Oversize filled
    usedNames,         \* patch names handed out so far
    patches,           \* generated patches, in order of generation
    mdOut,             \* the map MakeDiffs returns
    mdpc,              \* position of MakeDiffs
    \* ---- BuildDelta, the two rename passes ----
    rnRemoved,         \* removed files, as classifyRemovedAndChanged leaves them
    rnAdded,           \* added files, as classifyAdded leaves them
    rnExact,           \* what matchExactRenames returned
    rnScored,          \* kept pairs of the similarity pass, sorted
    rnPick,            \* what pickScoredRenames returned
    rnDelta,           \* the delta after both passes
    rnpc,              \* position inside BuildDelta
    \* ---- parseAnchorsFromFile ----
    anData,            \* the file: its marker and text items, in order
    startsByName,      \* line pass: open start lines per name
    opens,             \* block pass: the open-list
    anAnchors,         \* anchors emitted so far
    anpc,              \* "off", "lines", "blocks", "done"
    \* ---- EnsureUniqueName ----
    usedSet,           \* the set of names taken (used)
    impl,              \* which of the two functions the run calls
    uniqCalls,         \* the calls made: name asked, name returned, used before and after
    \* ---- a FULL run followed by a DELTA run ----
    flTree,            \* the source tree, the same in both runs
    flFlags,           \* the selection flags, the same in both runs
    flIndex,           \* index.json of the project's cache directory
    flDelta,           \* the delta the DELTA run reports
    flpc               \* "off", "start", "nofiles", "full_done", "delta_done"

deltaVars == <<prev, curr, enableSimRename, simThresh, contentProvider, dpc, delta, delta2>>
indexVars == <<idxPointers, idxSymbols, filesDone, pointers, ipc>>
pathVars == <<pathIn, goos, pathOut, ppc>>
cacheVars == <<inodes, dirents, cpc, call, cfd, ctmp, cres, lpc, lfd, lres, saved>>

mainVars == <<args, mpc, exitCode, effects, oldCache, cache0, steps>>
bundleVars == <<man, man2, bundleID, bundleID2, bpc>>
chatVars == <<chatMax, chatClasses, chatLeft, msg, written, classes, entries, chatN, metaFiles, metas, chpc>>
fullVars == <<fullIn, archive, fpc>>
sliceVars == <<slIn, slices, slpc>>
autoVars == <<autoCfg, auIn, autoOut, aupc>>
gatherVars == <<gaIn, gaManifest, gaSymbols, gaSlices, gaPointers, gaDone, gapc>>
diffsVars == <<mdIn, mdChanged, usedNames, patches, mdOut, mdpc>>
renameVars == <<rnRemoved, rnAdded, rnExact, rnScored, rnPick, rnDelta, rnpc>>
anchorVars == <<anData, startsByName, opens, anAnchors, anpc>>
uniqVars == <<usedSet, impl, uniqCalls>>
followVars == <<flTree, flFlags, flIndex, flDelta, flpc>>

vars == <<deltaVars, indexVars, pathVars, cacheVars, mainVars, bundleVars, chatVars, fullVars, sliceVars, autoVars, gatherVars, diffsVars, renameVars, anchorVars, uniqVars, followVars>>

\* What each subsystem leaves alone.
nonDeltaVars == <<indexVars, pathVars, cacheVars, mainVars, bundleVars, chatVars, fullVars, sliceVars, autoVars, gatherVars, diffsVars, renameVars, anchorVars, uniqVars, followVars>>
nonIndexVars == <<deltaVars, pathVars, cacheVars, mainVars, bundleVars, chatVars, fullVars, sliceVars, autoVars, gatherVars, diffsVars, renameVars, anchorVars, uniqVars, followVars>>
nonPathVars == <<deltaVars, indexVars, cacheVars, mainVars, bundleVars, chatVars, fullVars, sliceVars, autoVars, gatherVars, diffsVars, renameVars, anchorVars, uniqVars, followVars>>
nonCacheVars == <<deltaVars, indexVars, pathVars, mainVars, bundleVars, chatVars, fullVars, sliceVars, autoVars, gatherVars, diffsVars, renameVars, anchorVars, uniqVars, followVars>>
nonMainVars == <<deltaVars, indexVars, pathVars, cacheVars, bundleVars, chatVars, fullVars, sliceVars, autoVars, gatherVars, diffsVars, renameVars, anchorVars, uniqVars, followVars>>
nonBundleVars == <<deltaVars, indexVars, pathVars, cacheVars, mainVars, chatVars, fullVars, sliceVars, autoVars, gatherVars, diffsVars, renameVars, anchorVars, uniqVars, followVars>>
nonChatVars == <<deltaVars, indexVars, pathVars, cacheVars, mainVars, bundleVars, fullVars, sliceVars, autoVars, gatherVars, diffsVars, renameVars, anchorVars, uniqVars, followVars>>
nonFullVars == <<deltaVars, indexVars, pathVars, cacheVars, mainVars, bundleVars, chatVars, sliceVars, autoVars, gatherVars, diffsVars, renameVars, anchorVars, uniqVars, followVars>>
nonSliceVars == <<deltaVars, indexVars, pathVars, cacheVars, mainVars, bundleVars, chatVars, fullVars, autoVars, gatherVars, diffsVars, renameVars, anchorVars, uniqVars, followVars>>
nonAutoVars == <<deltaVars, indexVars, pathVars, cacheVars, mainVars, bundleVars, chatVars, fullVars, sliceVars, gatherVars, diffsVars, renameVars, anchorVars, uniqVars, followVars>>
nonGatherVars == <<deltaVars, indexVars, pathVars, cacheVars, mainVars, bundleVars, chatVars, fullVars, sliceVars, autoVars, diffsVars, renameVars, anchorVars, uniqVars, followVars>>
nonDiffsVars == <<deltaVars, indexVars, pathVars, cacheVars, mainVars, bundleVars, chatVars, fullVars, sliceVars, autoVars, gatherVars, renameVars, anchorVars, uniqVars, followVars>>
nonRenameVars == <<deltaVars, indexVars, pathVars, cacheVars, mainVars, bundleVars, chatVars, fullVars, sliceVars, autoVars, gatherVars, diffsVars, anchorVars, uniqVars, followVars>>
nonAnchorVars == <<deltaVars, indexVars, pathVars, cacheVars, mainVars, bundleVars, chatVars, fullVars, sliceVars, autoVars, gatherVars, diffsVars, renameVars, uniqVars, followVars>>
nonUniqVars == <<deltaVars, indexVars, pathVars, cacheVars, mainVars, bundleVars, chatVars, fullVars, sliceVars, autoVars, gatherVars, diffsVars, renameVars, anchorVars, followVars>>
nonFollowVars == <<deltaVars, indexVars, pathVars, cacheVars, mainVars, bundleVars, chatVars, fullVars, sliceVars, autoVars, gatherVars, diffsVars, renameVars, anchorVars, uniqVars>>

-----------------------------------------------------------------------------
(* Generic helpers                                                         *)

\* Lexicographic order on sequences of integers (Go's < on strings and the
\* chained comparisons of the sort.Slice callbacks).
RECURSIVE LexLess(_, _)
LexLess(a, b) ==
    IF Len(b) = 0 THEN FALSE
    ELSE IF Len(a) = 0 THEN TRUE
    ELSE IF Head(a) # Head(b) THEN Head(a) < Head(b)
    ELSE LexLess(Tail(a), Tail(b))

\* Insert the keyed element x into the sorted sequence t, after the elements
\* whose key is not greater.
InsertSorted(t, x) ==
    LET k == Cardinality({j \in 1..Len(t) : ~LexLess(x.key, t[j].key)})
    IN  SubSeq(t, 1, k) \o <<x>> \o SubSeq(t, k + 1, Len(t))

\* sort.Slice over elements [key, val], the less callback comparing the keys.
SortKeyed(s) ==
    LET f[i \in 0..Len(s)] == IF i = 0 THEN <<>> ELSE InsertSorted(f[i - 1], s[i])
        r == f[Len(s)]
    IN  [i \in 1..Len(r) |-> r[i].val]

\* All orders in which the elements of the sequence s can be visited.
Perms(s) ==
    LET n == Len(s)
        bij == {f \in [1..n -> 1..n] : \A i, j \in 1..n : f[i] = f[j] => i = j}
    IN  {[i \in 1..n |-> s[f[i]]] : f \in bij}

Range(s) == {s[i] : i \in 1..Len(s)}

\* Strings are sequences of one-character strings; Code gives the byte value
\* that Go's string comparison orders by.
Code(c) ==
    CASE c = "\n" -> 10 [] c = " " -> 32 [] c = "#" -> 35 [] c = "-" -> 45
      [] c = "." -> 46 [] c = "/" -> 47 [] c = "1" -> 49 [] c = "2" -> 50
      [] c = "3" -> 51 [] c = "4" -> 52 [] c = ":" -> 58 [] c = "A" -> 65
      [] c = "C" -> 67 [] c = "E" -> 69 [] c = "I" -> 73 [] c = "M" -> 77
      [] c = "O" -> 79 [] c = "P" -> 80 [] c = "R" -> 82 [] c = "S" -> 83
      [] c = "T" -> 84 [] c = "Y" -> 89 [] c = "\\" -> 92 [] c = "_" -> 95 [] c = "a" -> 97
      [] c = "b" -> 98 [] c = "c" -> 99 [] c = "e" -> 101 [] c = "f" -> 102
      [] c = "h" -> 104 [] c = "n" -> 110 [] c = "o" -> 111 [] c = "p" -> 112
      [] c = "r" -> 114 [] c = "s" -> 115 [] c = "t" -> 116 [] c = "u" -> 117 [] c = "x" -> 120 [] c = "y" -> 121

Codes(s) == [i \in 1..Len(s) |-> Code(s[i])]

\* strings.ReplaceAll(s, from, to) for one-character from and to
ReplaceAll(s, from, to) == [i \in 1..Len(s) |-> IF s[i] = from THEN to ELSE s[i]]

\* strconv.Itoa for n >= 0
Digit(d) == CASE d = 0 -> "0" [] d = 1 -> "1" [] d = 2 -> "2" [] d = 3 -> "3" [] d = 4 -> "4"
              [] d = 5 -> "5" [] d = 6 -> "6" [] d = 7 -> "7" [] d = 8 -> "8" [] d = 9 -> "9"

RECURSIVE Itoa(_)
Itoa(n) == IF n < 10 THEN <<Digit(n)>> ELSE Itoa(n \div 10) \o <<Digit(n % 10)>>

\* map[string]int lookups and stores; a missing key reads as 0
MapGet(m, k) == IF k \in DOMAIN m THEN m[k] ELSE 0
MapPut(m, k, v) == [x \in DOMAIN m \cup {k} |-> IF x = k THEN v ELSE m[x]]
EmptyMap == [x \in {} |-> 0]

\* ---- DefaultAutoAnchorConfig (autoanchors.go:22) ----
DefaultAutoAnchorConfig ==
    [Enabled |-> TRUE, MinLines |-> 8, MaxPerFile |-> 64,
     Prefix |-> <<"a", "u", "t", "o", ":">>]

-----------------------------------------------------------------------------
(* Idle values of each subsystem's variables                               *)

FollowIdle ==
    /\ flTree = <<>>
    /\ flFlags = <<>>
    /\ flIndex = <<>>
    /\ flDelta = <<>>
    /\ flpc = "off"

UniqIdle ==
    /\ usedSet = {}
    /\ impl = ""
    /\ uniqCalls = <<>>

AnchorIdle ==
    /\ anData = <<>>
    /\ startsByName = <<>>
    /\ opens = <<>>
    /\ anAnchors = <<>>
    /\ anpc = "off"

RenameIdle ==
    /\ rnRemoved = <<>>
    /\ rnAdded = <<>>
    /\ rnExact = <<>>
    /\ rnScored = <<>>
    /\ rnPick = <<>>
    /\ rnDelta = <<>>
    /\ rnpc = "off"

DiffsIdle ==
    /\ mdIn = <<>>
    /\ mdChanged = <<>>
    /\ usedNames = {}
    /\ patches = <<>>
    /\ mdOut = EmptyMap
    /\ mdpc = "off"

GatherIdle ==
    /\ gaIn = <<>>
    /\ gaManifest = <<>>
    /\ gaSymbols = <<>>
    /\ gaSlices = <<>>
    /\ gaPointers = <<>>
    /\ gaDone = 0
    /\ gapc = "off"

AutoIdle ==
    /\ autoCfg = DefaultAutoAnchorConfig
    /\ auIn = <<>>
    /\ autoOut = <<>>
    /\ aupc = "off"

SliceIdle ==
    /\ slIn = <<>>
    /\ slices = <<>>
    /\ slpc = "off"

FullIdle ==
    /\ fullIn = <<>>
    /\ archive = <<>>
    /\ fpc = "off"

ChatIdle ==
    /\ chatMax = 0
    /\ chatClasses = 0
    /\ chatLeft = 0
    /\ msg = <<>>
    /\ written = 0
    /\ classes = 0
    /\ entries = <<>>
    /\ chatN = 0
    /\ metaFiles = <<>>
    /\ metas = <<>>
    /\ chpc = "off"

MainIdle ==
    /\ args = <<>> /\ mpc = "off" /\ exitCode = -1 /\ effects = {} /\ oldCache = {}
    /\ cache0 = {} /\ steps = <<>>

BundleIdle ==
    /\ man = [Module |-> "", Files |-> <<>>]
    /\ man2 = [Module |-> "", Files |-> <<>>]
    /\ bundleID = <<>>
    /\ bundleID2 = <<>>
    /\ bpc = "off"

CacheIdle ==
    /\ inodes = <<>>
    /\ dirents = <<>>
    /\ cpc = <<>>
    /\ call = <<>>
    /\ cfd = <<>>
    /\ ctmp = <<>>
    /\ cres = <<>>
    /\ lpc = "off"
    /\ lfd = 0
    /\ lres = [kind |-> "pending", val |-> 0]
    /\ saved = {}

PathIdle == pathIn = <<>> /\ goos = "linux" /\ pathOut = <<>> /\ ppc = "idle"

IndexIdle ==
    /\ idxPointers = <<>>
    /\ idxSymbols = <<>>
    /\ filesDone = 0
    /\ pointers = <<>>
    /\ ipc = "idle"

-----------------------------------------------------------------------------
(* internal/cache: snapshots and BuildDelta                                *)

DeltaIdle ==
    /\ prev = [isNil |-> TRUE, Files |-> <<>>]
    /\ curr = [isNil |-> TRUE, Files |-> <<>>]
    /\ enableSimRename = FALSE
    /\ simThresh = 8
    /\ contentProvider = "none"
    /\ dpc = "idle"
    /\ delta = [Added |-> <<>>, Removed |-> <<>>, Changed |-> <<>>, Renamed |-> <<>>]
    /\ delta2 = [Added |-> <<>>, Removed |-> <<>>, Changed |-> <<>>, Renamed |-> <<>>]

NPaths == 3        \* paths are 1..NPaths, ordered as the path strings are
NHashes == 3       \* content hashes are 1..NHashes
SimBits == 2       \* width of the modelled SimHash fingerprint
DefaultSimThresh == 8

Paths == 1..NPaths
Hashes == 1..NHashes

\* A hash identifies a file content; the line count recorded in a snapshot is
\* a function of that content (0 = not recorded).
LinesOf(h) == (3 * (h - 1)) % 5

SnapFile(p, h) == [Path |-> p, Hash |-> h, Lines |-> LinesOf(h)]

NilSnapshot == [isNil |-> TRUE, Files |-> <<>>]

\* The snapshot whose files are given by f: Paths -> 0..NHashes (0 = absent),
\* in ascending path order, as buildSnapshot and the manifest leave them.
SnapshotOf(f) ==
    LET all == [p \in 1..NPaths |-> [Path |-> p, Hash |-> f[p], Lines |-> LinesOf(f[p])]]
    IN  [isNil |-> FALSE, Files |-> SelectSeq(all, LAMBDA x : x.Hash # 0)]

Snapshots == {NilSnapshot} \cup {SnapshotOf(f) : f \in [Paths -> 0..NHashes]}

\* sort.Slice by Path (SnapFile and changed entries)
SortByPath(s) == SortKeyed([i \in 1..Len(s) |-> [key |-> <<s[i].Path>>, val |-> s[i]]])

\* sort.Slice by (From, To)
SortByFromTo(s) == SortKeyed([i \in 1..Len(s) |-> [key |-> <<s[i].From, s[i].To>>, val |-> s[i]]])

EmptyDelta == [Added |-> <<>>, Removed |-> <<>>, Changed |-> <<>>, Renamed |-> <<>>]

PathsOf(files) == {files[i].Path : i \in 1..Len(files)}

\* ---- handleTrivialDelta (delta.go:67) ----
handleTrivialDelta(p, c) ==
    IF c.isNil \/ Len(c.Files) = 0
    THEN [ok |-> TRUE,
          d  |-> [EmptyDelta EXCEPT !.Removed = IF p.isNil THEN <<>> ELSE SortByPath(p.Files)]]
    ELSE IF p.isNil \/ Len(p.Files) = 0
    THEN [ok |-> TRUE,
          d  |-> [EmptyDelta EXCEPT !.Added = IF c.isNil THEN <<>> ELSE SortByPath(c.Files)]]
    ELSE [ok |-> FALSE, d |-> EmptyDelta]

\* ---- indexByPath (delta.go:87): a map from path to file, the last entry winning ----
indexByPath(files) ==
    [p \in PathsOf(files) |->
        files[CHOOSE i \in 1..Len(files) :
                 /\ files[i].Path = p
                 /\ \A j \in 1..Len(files) : files[j].Path = p => j <= i]]

\* classifyRemovedAndChanged without the append to changed
classifyRemovedOnly(prevMap, currMap, order) ==
    LET gone == SelectSeq(order, LAMBDA path : path \notin DOMAIN currMap)
    IN  [removed |-> [i \in 1..Len(gone) |-> prevMap[gone[i]]], changed |-> <<>>]

\* ---- classifyRemovedAndChanged (delta.go:95); order is the map's iteration order ----
classifyRemovedAndChanged(prevMap, currMap, order) ==
    LET step[i \in 0..Len(order)] ==
            IF i = 0 THEN [removed |-> <<>>, changed |-> <<>>]
            ELSE LET acc  == step[i - 1]
                     path == order[i]
                     pf   == prevMap[path]
                 IN  IF path \in DOMAIN currMap
                     THEN IF pf.Hash # currMap[path].Hash
                          THEN [acc EXCEPT !.changed =
                                   Append(@, [Path |-> path, HashBefore |-> pf.Hash,
                                              HashAfter |-> currMap[path].Hash,
                                              DiffPath |-> "", Oversize |-> FALSE])]
                          ELSE acc
                     ELSE [acc EXCEPT !.removed = Append(@, pf)]
    IN  step[Len(order)]

\* ---- classifyAdded (delta.go:114) ----
classifyAdded(prevMap, currMap, order) ==
    LET keep == SelectSeq(order, LAMBDA path : path \notin DOMAIN prevMap)
    IN  [i \in 1..Len(keep) |-> currMap[keep[i]]]

\* ---- filterSnapFiles (delta.go:307): used is the set of consumed indexes ----
filterSnapFilesKeepAll(files, used) == files

filterSnapFiles(files, used) ==
    IF used = {} THEN files
    ELSE LET idxs == SelectSeq([i \in 1..Len(files) |-> i], LAMBDA i : i \notin used)
         IN  [k \in 1..Len(idxs) |-> files[idxs[k]]]

\* sort.Slice by path (remInfo and addInfo)
SortInfos(s) == SortKeyed([i \in 1..Len(s) |-> [key |-> <<s[i].path>>, val |-> s[i]]])

\* the exact pass pairing an added file with the last removed file of its hash
matchExactRenamesLast(removed, added) ==
    IF Len(removed) = 0 \/ Len(added) = 0
    THEN [renamed |-> <<>>, removed |-> removed, added |-> added]
    ELSE
    LET remInfos == [i \in 1..Len(removed) |-> [idx |-> i, path |-> removed[i].Path]]
        byHash0  == [h \in Hashes |->
                        SortInfos(SelectSeq(remInfos, LAMBDA r : removed[r.idx].Hash = h))]
        addInfos == SortInfos([i \in 1..Len(added) |-> [idx |-> i, path |-> added[i].Path]])
        loop[k \in 0..Len(addInfos)] ==
            IF k = 0
            THEN [byHash |-> byHash0, usedRemoved |-> {}, usedAdded |-> {}, renamed |-> <<>>]
            ELSE LET s     == loop[k - 1]
                     info  == addInfos[k]
                     af    == added[info.idx]
                     cands == s.byHash[af.Hash]
                 IN  IF Len(cands) = 0 THEN s
                     ELSE LET cand == cands[Len(cands)]
                          IN  [byHash      |-> [s.byHash EXCEPT ![af.Hash] = SubSeq(cands, 1, Len(cands) - 1)],
                               usedRemoved |-> s.usedRemoved \cup {cand.idx},
                               usedAdded   |-> s.usedAdded \cup {info.idx},
                               renamed     |-> Append(s.renamed,
                                                  [From |-> removed[cand.idx].Path,
                                                   To   |-> af.Path,
                                                   Hash |-> af.Hash])]
        fin == loop[Len(addInfos)]
    IN  [renamed |-> fin.renamed,
         removed |-> filterSnapFiles(removed, fin.usedRemoved),
         added   |-> filterSnapFiles(added, fin.usedAdded)]

\* the exact pass dropping a hash after its first pairing
matchExactRenamesOnce(removed, added) ==
    IF Len(removed) = 0 \/ Len(added) = 0
    THEN [renamed |-> <<>>, removed |-> removed, added |-> added]
    ELSE
    LET remInfos == [i \in 1..Len(removed) |-> [idx |-> i, path |-> removed[i].Path]]
        byHash0  == [h \in Hashes |->
                        SortInfos(SelectSeq(remInfos, LAMBDA r : removed[r.idx].Hash = h))]
        addInfos == SortInfos([i \in 1..Len(added) |-> [idx |-> i, path |-> added[i].Path]])
        loop[k \in 0..Len(addInfos)] ==
            IF k = 0
            THEN [byHash |-> byHash0, usedRemoved |-> {}, usedAdded |-> {}, renamed |-> <<>>]
            ELSE LET s     == loop[k - 1]
                     info  == addInfos[k]
                     af    == added[info.idx]
                     cands == s.byHash[af.Hash]
                 IN  IF Len(cands) = 0 THEN s
                     ELSE LET cand == cands[1]
                          IN  [byHash      |-> [s.byHash EXCEPT ![af.Hash] = <<>>],
                               usedRemoved |-> s.usedRemoved \cup {cand.idx},
                               usedAdded   |-> s.usedAdded \cup {info.idx},
                               renamed     |-> Append(s.renamed,
                                                  [From |-> removed[cand.idx].Path,
                                                   To   |-> af.Path,
                                                   Hash |-> af.Hash])]
        fin == loop[Len(addInfos)]
    IN  [renamed |-> fin.renamed,
         removed |-> filterSnapFiles(removed, fin.usedRemoved),
         added   |-> filterSnapFiles(added, fin.usedAdded)]

\* ---- matchExactRenames (delta.go:124) ----
matchExactRenames(removed, added) ==
    IF Len(removed) = 0 \/ Len(added) = 0
    THEN [renamed |-> <<>>, removed |-> removed, added |-> added]
    ELSE
    LET remInfos == [i \in 1..Len(removed) |-> [idx |-> i, path |-> removed[i].Path]]
        byHash0  == [h \in Hashes |->
                        SortInfos(SelectSeq(remInfos, LAMBDA r : removed[r.idx].Hash = h))]
        addInfos == SortInfos([i \in 1..Len(added) |-> [idx |-> i, path |-> added[i].Path]])
        loop[k \in 0..Len(addInfos)] ==
            IF k = 0
            THEN [byHash |-> byHash0, usedRemoved |-> {}, usedAdded |-> {}, renamed |-> <<>>]
            ELSE LET s     == loop[k - 1]
                     info  == addInfos[k]
                     af    == added[info.idx]
                     cands == s.byHash[af.Hash]
                 IN  IF Len(cands) = 0 THEN s
                     ELSE LET cand == cands[1]
                          IN  [byHash      |-> [s.byHash EXCEPT ![af.Hash] = Tail(cands)],
                               usedRemoved |-> s.usedRemoved \cup {cand.idx},
                               usedAdded   |-> s.usedAdded \cup {info.idx},
                               renamed     |-> Append(s.renamed,
                                                  [From |-> removed[cand.idx].Path,
                                                   To   |-> af.Path,
                                                   Hash |-> af.Hash])]
        fin == loop[Len(addInfos)]
    IN  [renamed |-> fin.renamed,
         removed |-> filterSnapFiles(removed, fin.usedRemoved),
         added   |-> filterSnapFiles(added, fin.usedAdded)]

\* ---- ContentProvider.Read (content_provider.go:8, main.go:35) ----
\* A file's content is identified by its hash.  "ok" reads both roots,
\* "oldmissing" fails every read under the old root.
ProviderRead(prov, file, old) ==
    IF prov = "oldmissing" /\ old THEN [ok |-> FALSE, data |-> 0]
    ELSE [ok |-> TRUE, data |-> file.Hash]

\* ---- simHash64 (delta.go:358): the fingerprint of a content, SimBits wide ----
simHash64(data) == (3 * data + 1) % (2 ^ SimBits)

\* ---- bitsOnesCount64 (delta.go:351) ----
RECURSIVE bitsOnesCount64(_)
bitsOnesCount64(x) == IF x = 0 THEN 0 ELSE (x % 2) + bitsOnesCount64(x \div 2)

\* a ^ b on naturals
RECURSIVE Xor(_, _)
Xor(a, b) ==
    IF a = 0 /\ b = 0 THEN 0
    ELSE (((a % 2) + (b % 2)) % 2) + 2 * Xor(a \div 2, b \div 2)

\* ---- hamming64 (delta.go:346) ----
hamming64(a, b) == bitsOnesCount64(Xor(a, b))

\* ---- loadSimHash (delta.go:274); the per-index cache only memoizes Read ----
loadSimHash(idx, files, old, prov) ==
    LET r == ProviderRead(prov, files[idx], old)
    IN  IF ~r.ok THEN [hash |-> 0, ok |-> FALSE]
        ELSE [hash |-> simHash64(r.data), ok |-> TRUE]

\* ---- collectRenameCandidates (delta.go:219) ----
collectRenameCandidates(d) ==
    LET nR  == Len(d.Removed)
        nA  == Len(d.Added)
        all == [k \in 1..(nR * nA) |->
                   [removedIdx |-> ((k - 1) \div nA) + 1, addedIdx |-> ((k - 1) % nA) + 1]]
        keep(pair) ==
            LET rf == d.Removed[pair.removedIdx]
                af == d.Added[pair.addedIdx]
                a  == IF rf.Lines < af.Lines THEN af.Lines ELSE rf.Lines
                b  == IF rf.Lines < af.Lines THEN rf.Lines ELSE af.Lines
            IN  /\ rf.Hash # af.Hash
                /\ \/ rf.Lines = 0 \/ af.Lines = 0
                   \/ b = 0
                   \/ a <= 2 * b
    IN  SelectSeq(all, keep)

\* ---- scoreRenameCandidates (delta.go:242) ----
scoreRenameCandidates(d, pairs, prov, thresh) ==
    LET score(pair) ==
            LET ha == loadSimHash(pair.removedIdx, d.Removed, TRUE, prov)
                hb == loadSimHash(pair.addedIdx, d.Added, FALSE, prov)
            IN  [ok   |-> ha.ok /\ hb.ok,
                 dist |-> IF ha.ok /\ hb.ok THEN hamming64(ha.hash, hb.hash) ELSE 0]
        kept   == SelectSeq(pairs, LAMBDA pair : score(pair).ok /\ score(pair).dist <= thresh)
        scored == [i \in 1..Len(kept) |->
                      [removedIdx |-> kept[i].removedIdx,
                       addedIdx   |-> kept[i].addedIdx,
                       score      |-> score(kept[i]).dist,
                       toPath     |-> d.Added[kept[i].addedIdx].Path]]
    IN  SortKeyed([i \in 1..Len(scored) |->
            [key |-> <<scored[i].toPath, scored[i].score, d.Removed[scored[i].removedIdx].Path>>,
             val |-> scored[i]]])

\* the pick promoting every kept pair, whatever was used before
pickScoredRenamesAll(d, scored) ==
    [renames     |-> [k \in 1..Len(scored) |->
                         [From |-> d.Removed[scored[k].removedIdx].Path,
                          To   |-> d.Added[scored[k].addedIdx].Path,
                          Hash |-> d.Added[scored[k].addedIdx].Hash]],
     usedRemoved |-> {scored[k].removedIdx : k \in 1..Len(scored)},
     usedAdded   |-> {scored[k].addedIdx : k \in 1..Len(scored)}]

\* ---- pickScoredRenames (delta.go:288) ----
pickScoredRenames(d, scored) ==
    LET loop[k \in 0..Len(scored)] ==
            IF k = 0 THEN [renames |-> <<>>, usedRemoved |-> {}, usedAdded |-> {}]
            ELSE LET acc == loop[k - 1]
                     s   == scored[k]
                 IN  IF s.removedIdx \in acc.usedRemoved \/ s.addedIdx \in acc.usedAdded
                     THEN acc
                     ELSE [renames     |-> Append(acc.renames,
                                              [From |-> d.Removed[s.removedIdx].Path,
                                               To   |-> d.Added[s.addedIdx].Path,
                                               Hash |-> d.Added[s.addedIdx].Hash]),
                           usedRemoved |-> acc.usedRemoved \cup {s.removedIdx},
                           usedAdded   |-> acc.usedAdded \cup {s.addedIdx}]
    IN  loop[Len(scored)]

\* ---- applySimilarityRenames (delta.go:194) ----
applySimilarityRenames(d, prov, thresh) ==
    IF Len(d.Removed) = 0 \/ Len(d.Added) = 0 THEN d
    ELSE IF prov = "none" THEN d
    ELSE LET pairs == collectRenameCandidates(d)
         IN  IF Len(pairs) = 0 THEN d
             ELSE LET scored == scoreRenameCandidates(d, pairs, prov, thresh)
                  IN  IF Len(scored) = 0 THEN d
                      ELSE LET pick == pickScoredRenames(d, scored)
                           IN  IF Len(pick.renames) = 0 THEN d
                               ELSE [d EXCEPT
                                       !.Renamed = @ \o pick.renames,
                                       !.Removed = filterSnapFiles(@, pick.usedRemoved),
                                       !.Added   = filterSnapFiles(@, pick.usedAdded)]

\* ---- sortDelta (delta.go:320) ----
sortDeltaKeepOrder(d) == d

sortDelta(d) ==
    [Removed |-> SortByPath(d.Removed),
     Added   |-> SortByPath(d.Added),
     Changed |-> SortByPath(d.Changed),
     Renamed |-> SortByFromTo(d.Renamed)]

\* ---- BuildDelta (delta.go:37) ----
\* itPrev and itCurr are the orders in which the two `range` loops over the
\* maps visit their keys (Go leaves the order unspecified).
BuildDelta(p, c, itPrev, itCurr, enable, thresh, prov) ==
    LET triv == handleTrivialDelta(p, c)
    IN  IF triv.ok THEN triv.d
        ELSE LET prevMap == indexByPath(p.Files)
                 currMap == indexByPath(c.Files)
                 rc      == classifyRemovedAndChanged(prevMap, currMap, itPrev)
                 added   == classifyAdded(prevMap, currMap, itCurr)
                 m       == matchExactRenames(rc.removed, added)
                 d1      == [Removed |-> m.removed, Added |-> m.added,
                             Changed |-> rc.changed, Renamed |-> m.renamed]
                 d2      == IF enable THEN applySimilarityRenames(d1, prov, thresh) ELSE d1
             IN  sortDelta(d2)

\* ---- SetRenameSimilarity (delta.go:29) ----
SetRenameSimilarity(enable, thresh) ==
    /\ dpc = "config"
    /\ enableSimRename' = enable
    /\ simThresh' = IF thresh > 0 THEN thresh ELSE simThresh
    /\ UNCHANGED <<prev, curr, contentProvider, dpc, delta, delta2>>
    /\ UNCHANGED nonDeltaVars

\* ---- SetContentProvider (content_provider.go:15) ----
SetContentProvider(p) ==
    /\ dpc = "config"
    /\ contentProvider' = p
    /\ UNCHANGED <<prev, curr, enableSimRename, simThresh, dpc, delta, delta2>>
    /\ UNCHANGED nonDeltaVars

KeysOf(files) == [i \in 1..Len(files) |-> files[i].Path]

\* One call of BuildDelta(prev, curr): the caller may hand the files over in
\* any order, and the map loops may visit the keys in any order.
DeltaResults ==
    {BuildDelta([prev EXCEPT !.Files = pf], [curr EXCEPT !.Files = cf],
                KeysOf(pf), KeysOf(cf), enableSimRename, simThresh, contentProvider) :
        pf \in Perms(prev.Files), cf \in Perms(curr.Files)}

BuildDeltaFirst ==
    /\ dpc = "config"
    /\ \E d \in DeltaResults : delta' = d
    /\ dpc' = "run1"
    /\ UNCHANGED <<prev, curr, enableSimRename, simThresh, contentProvider, delta2>>
    /\ UNCHANGED nonDeltaVars

BuildDeltaSecond ==
    /\ dpc = "run1"
    /\ \E d \in DeltaResults : delta2' = d
    /\ dpc' = "run2"
    /\ UNCHANGED <<prev, curr, enableSimRename, simThresh, contentProvider, delta>>
    /\ UNCHANGED nonDeltaVars

InitDelta ==
    /\ prev \in Snapshots
    /\ curr \in Snapshots
    /\ enableSimRename = FALSE
    /\ simThresh = DefaultSimThresh
    /\ contentProvider = "none"
    /\ dpc = "config"
    /\ delta = EmptyDelta
    /\ delta2 = EmptyDelta
    /\ IndexIdle
    /\ PathIdle
    /\ CacheIdle
    /\ MainIdle
    /\ BundleIdle
    /\ ChatIdle
    /\ FullIdle
    /\ SliceIdle
    /\ AutoIdle
    /\ GatherIdle
    /\ DiffsIdle
    /\ RenameIdle
    /\ AnchorIdle
    /\ UniqIdle
    /\ FollowIdle

NextDelta ==
    \/ \E e \in BOOLEAN, t \in {0, 1} : SetRenameSimilarity(e, t)
    \/ \E p \in {"ok", "oldmissing"} : SetContentProvider(p)
    \/ BuildDeltaFirst
    \/ BuildDeltaSecond

SpecDelta == InitDelta /\ [][NextDelta]_vars

-----------------------------------------------------------------------------
(* Properties of BuildDelta                                                *)

DeltaDone == dpc \in {"run1", "run2"}

HashIn(snap, path) ==
    LET m == indexByPath(snap.Files) IN IF path \in DOMAIN m THEN m[path].Hash ELSE 0

UnchangedPaths ==
    {p \in PathsOf(prev.Files) \cap PathsOf(curr.Files) : HashIn(prev, p) = HashIn(curr, p)}

RenamedTo(d) == {d.Renamed[i].To : i \in 1..Len(d.Renamed)}
RenamedFrom(d) == {d.Renamed[i].From : i \in 1..Len(d.Renamed)}
ChangedPaths(d) == {d.Changed[i].Path : i \in 1..Len(d.Changed)}

\* C1: delta completeness.  After BuildDelta(prev, curr), the paths of added,
\* the unchanged paths, the rename targets and the changed paths are exactly
\* the paths of curr, and the paths of removed, the unchanged paths, the
\* rename sources and the changed paths are exactly the paths of prev.
C1_DeltaCompleteness ==
    DeltaDone =>
        /\ PathsOf(delta.Added) \cup UnchangedPaths \cup RenamedTo(delta) \cup ChangedPaths(delta)
              = PathsOf(curr.Files)
        /\ PathsOf(delta.Removed) \cup UnchangedPaths \cup RenamedFrom(delta) \cup ChangedPaths(delta)
              = PathsOf(prev.Files)

\* A run with the similarity pass on that produced a similarity rename next
\* to a changed file.
C1_Witness ==
    /\ dpc = "run1"
    /\ enableSimRename
    /\ Len(delta.Changed) > 0
    /\ \E i \in 1..Len(delta.Renamed) :
          HashIn(prev, delta.Renamed[i].From) # delta.Renamed[i].Hash

\* A degenerate run: curr is nil and every file of prev is reported removed.
C1_WitnessTrivial ==
    /\ dpc = "run1"
    /\ curr.isNil
    /\ Len(delta.Removed) = NPaths

\* C2: rename exclusivity.  No rename target is listed in added and no rename
\* source is listed in removed.
C2_RenameExclusivity ==
    DeltaDone =>
        \A i \in 1..Len(delta.Renamed) :
            /\ delta.Renamed[i].To \notin PathsOf(delta.Added)
            /\ delta.Renamed[i].From \notin PathsOf(delta.Removed)

\* A run whose renames come from the exact pass and leave other files added.
C2_Witness ==
    /\ dpc = "run1"
    /\ Len(delta.Added) > 0
    /\ \E i \in 1..Len(delta.Renamed) :
          HashIn(prev, delta.Renamed[i].From) = delta.Renamed[i].Hash

\* A run whose rename comes from the similarity pass.
C2_WitnessSimilarity ==
    /\ dpc = "run1"
    /\ Len(delta.Removed) > 0
    /\ \E i \in 1..Len(delta.Renamed) :
          HashIn(prev, delta.Renamed[i].From) # delta.Renamed[i].Hash

\* C10: determinism.  Two calls of BuildDelta on the same snapshots, with the
\* files handed over in any order and the maps iterated in any order, return
\* the same added, removed, changed and renamed lists, in the same order.
C10_Determinism == dpc = "run2" => delta = delta2

\* Two runs with the similarity pass reading contents, and several files left
\* in removed.
C10_Witness ==
    /\ dpc = "run2"
    /\ enableSimRename
    /\ contentProvider = "ok"
    /\ Len(delta.Removed) >= 2
    /\ Len(delta.Added) >= 1

-----------------------------------------------------------------------------
(* internal/index: anchor pointers, symbol pointers and their assembly     *)

MaxAnchors == 3    \* anchors per file
MaxSyms == 1       \* symbols per file
MaxLine == 2       \* lines per file

\* The walker's files, in ascending path order.
WalkFiles == << <<"a", "-", "b">>, <<"a", "/", "b">> >>

\* Anchor names: region names and a prefixed auto anchor name.
AnchorNames == { <<"x">>, <<"x", "-", "2">>, <<":", "x">> }

\* Qualified symbol names.
QNames == { <<"p", ".", "f">>, <<"p", "-", "f">> }

IsSlugChar(c) ==
    c \in {"a", "b", "c", "e", "f", "h", "n", "o", "p", "r", "t", "x", "y", "A", "C",
           "0", "1", "2", "3", "4", "5", "6", "7", "8", "9", ".", "_", "-"}

\* strings.Trim(s, "-")
RECURSIVE TrimLeftCh(_, _)
TrimLeftCh(s, ch) == IF Len(s) > 0 /\ Head(s) = ch THEN TrimLeftCh(Tail(s), ch) ELSE s

RECURSIVE TrimRightCh(_, _)
TrimRightCh(s, ch) ==
    IF Len(s) > 0 /\ s[Len(s)] = ch THEN TrimRightCh(SubSeq(s, 1, Len(s) - 1), ch) ELSE s

\* ---- slugifyAnchor (pointers.go:94) ----
slugifyAnchor(s) ==
    IF Len(s) = 0 THEN <<"a", "n", "c", "h", "o", "r">>
    ELSE LET loop[i \in 0..Len(s)] ==
                 IF i = 0 THEN [b |-> <<>>, lastDash |-> FALSE]
                 ELSE LET st == loop[i - 1]
                      IN  IF IsSlugChar(s[i]) THEN [b |-> Append(st.b, s[i]), lastDash |-> FALSE]
                          ELSE IF ~st.lastDash THEN [b |-> Append(st.b, "-"), lastDash |-> TRUE]
                          ELSE st
             res == TrimRightCh(TrimLeftCh(loop[Len(s)].b, "-"), "-")
         IN  IF Len(res) = 0 THEN <<"a", "n", "c", "h", "o", "r">> ELSE res

\* sort.Slice by (Start, End, Name)
SortAnchors(s) ==
    SortKeyed([i \in 1..Len(s) |->
        [key |-> <<s[i].Start, s[i].End>> \o Codes(s[i].Name), val |-> s[i]]])

\* ---- BuildAnchorPointers (pointers.go:35) ----
BuildAnchorPointers(relPath, anchors) ==
    IF Len(anchors) = 0 THEN <<>>
    ELSE LET sorted == SortAnchors(anchors)
             base   == ReplaceAll(relPath, "/", "-")
             loop[i \in 0..Len(sorted)] ==
                 IF i = 0 THEN [seen |-> EmptyMap, out |-> <<>>]
                 ELSE LET st    == loop[i - 1]
                          a     == sorted[i]
                          start == IF a.Start <= 0 THEN 1 ELSE a.Start
                          end   == IF a.End < start THEN start ELSE a.End
                          id0   == base \o <<"#">> \o slugifyAnchor(a.Name)
                          c     == MapGet(st.seen, id0)
                          id    == IF c > 0 THEN id0 \o <<"-">> \o Itoa(c + 1) ELSE id0
                      IN  [seen |-> MapPut(st.seen, id0, IF c > 0 THEN c + 1 ELSE 1),
                           out  |-> Append(st.out, [ID |-> id, Path |-> relPath, Sym |-> <<>>,
                                                    Start |-> start, End |-> end])]
         IN  loop[Len(sorted)].out

\* sort.Slice by (Symbol, Path, Start, End); -1 ends a string before any byte
SortSymbolsByName(s) ==
    SortKeyed([i \in 1..Len(s) |->
        [key |-> Codes(s[i].Symbol) \o <<-1>> \o Codes(s[i].Path) \o <<-1, s[i].Start, s[i].End>>,
         val |-> s[i]]])

\* sort.Slice by (ID, Path, Start, End)
SortPointers(s) ==
    SortKeyed([i \in 1..Len(s) |->
        [key |-> Codes(s[i].ID) \o <<-1>> \o Codes(s[i].Path) \o <<-1, s[i].Start, s[i].End>>,
         val |-> s[i]]])

\* ---- buildPointerIndex (symbols_pointers.go:48) ----
buildPointerIndex(symbols) ==
    LET sorted == SortSymbolsByName(symbols)
        loop[i \in 0..Len(sorted)] ==
            IF i = 0 THEN [seen |-> EmptyMap, out |-> <<>>]
            ELSE LET st == loop[i - 1]
                     sy == sorted[i]
                 IN  IF Len(sy.Symbol) = 0 THEN st
                     ELSE LET baseID == ReplaceAll(sy.Symbol, ".", "-")
                              c      == MapGet(st.seen, baseID)
                              id     == IF c > 0 THEN baseID \o <<"-">> \o Itoa(c + 1) ELSE baseID
                              start  == IF sy.Start <= 0 THEN 1 ELSE sy.Start
                              end    == IF sy.End < start THEN start ELSE sy.End
                          IN  [seen |-> MapPut(st.seen, baseID, IF c > 0 THEN c + 1 ELSE 1),
                               out  |-> Append(st.out, [ID |-> id, Path |-> sy.Path,
                                                        Sym |-> sy.Symbol,
                                                        Start |-> start, End |-> end])]
    IN  loop[Len(sorted)].out

PointerKey(q) == <<q.ID, q.Path, q.Start, q.End>>

\* ---- dedupPointers (symbols_pointers.go:98) ----
dedupPointers(in) ==
    IF Len(in) <= 1 THEN in
    ELSE LET idxs == SelectSeq([i \in 1..Len(in) |-> i],
                        LAMBDA i : \A j \in 1..(i - 1) : PointerKey(in[j]) # PointerKey(in[i]))
         IN  [k \in 1..Len(idxs) |-> in[idxs[k]]]

\* ---- BuildSymbolPointers (symbols_pointers.go:23) ----
BuildSymbolPointers(symbols) ==
    IF Len(symbols) = 0 THEN <<>>
    ELSE LET index == buildPointerIndex(symbols)
         IN  IF Len(index) = 0 THEN <<>> ELSE SortPointers(dedupPointers(index))

\* The anchors a file can carry: a set of distinct (Name, Start, End)
\* regions, in (Start, End, Name) order as ExtractAnchors returns them.
AnchorUniverse ==
    {[Name |-> n, Start |-> r[1], End |-> r[2]] :
        n \in AnchorNames, r \in {q \in (1..MaxLine) \X (1..MaxLine) : q[1] <= q[2]}}

RECURSIVE SetToSeq(_)
SetToSeq(S) == IF S = {} THEN <<>> ELSE LET x == CHOOSE y \in S : TRUE IN <<x>> \o SetToSeq(S \ {x})

AnchorLists ==
    {SortAnchors(SetToSeq(S)) : S \in {T \in SUBSET AnchorUniverse : Cardinality(T) <= MaxAnchors}}

\* The symbols an extractor can report for a file: at most MaxSyms, on
\* distinct lines, with End still equal to Start.
SortSymbolsByStart(s) ==
    SortKeyed([i \in 1..Len(s) |-> [key |-> <<s[i].Start>>, val |-> s[i]]])

SymbolLists(path) ==
    LET U == {[Symbol |-> q, Kind |-> "func", Path |-> path, Start |-> l, End |-> l] :
                 q \in QNames, l \in 1..MaxLine}
        ok(T) == /\ Cardinality(T) <= MaxSyms
                 /\ \A x, y \in T : x.Start = y.Start => x = y
    IN  {SetToSeq(T) : T \in {T \in SUBSET U : ok(T)}}

\* ---- processFile (manifest.go:175): sort by Start and finalize End ----
FinalizeSymbols(syms, totalLines) ==
    LET sorted == SortSymbolsByStart(syms)
    IN  [i \in 1..Len(sorted) |->
            IF i + 1 <= Len(sorted)
            THEN LET e == sorted[i + 1].Start - 1
                 IN  [sorted[i] EXCEPT !.End = IF e < sorted[i].Start THEN sorted[i].Start ELSE e]
            ELSE [sorted[i] EXCEPT !.End = totalLines]]

\* ---- gatherSymbolsIndex (manifest.go:122), one readable file ----
ProcessFile(anchors, syms) ==
    /\ ipc = "gather"
    /\ filesDone < Len(WalkFiles)
    /\ idxPointers' = idxPointers \o BuildAnchorPointers(WalkFiles[filesDone + 1], anchors)
    /\ idxSymbols' = idxSymbols \o FinalizeSymbols(syms, MaxLine)
    /\ filesDone' = filesDone + 1
    /\ UNCHANGED <<pointers, ipc>>
    /\ UNCHANGED nonIndexVars

\* ---- gatherSymbolsIndex (manifest.go:126): an unreadable file is skipped ----
SkipFile ==
    /\ ipc = "gather"
    /\ filesDone < Len(WalkFiles)
    /\ filesDone' = filesDone + 1
    /\ UNCHANGED <<idxPointers, idxSymbols, pointers, ipc>>
    /\ UNCHANGED nonIndexVars

\* ---- assembleArtifacts (manifest.go:232), the pointer list ----
AssembleArtifacts ==
    /\ ipc = "gather"
    /\ filesDone = Len(WalkFiles)
    /\ pointers' = SortPointers(idxPointers \o
                       (IF Len(idxSymbols) > 0 THEN BuildSymbolPointers(idxSymbols) ELSE <<>>))
    /\ ipc' = "done"
    /\ UNCHANGED <<idxPointers, idxSymbols, filesDone>>
    /\ UNCHANGED nonIndexVars

InitIndex ==
    /\ idxPointers = <<>>
    /\ idxSymbols = <<>>
    /\ filesDone = 0
    /\ pointers = <<>>
    /\ ipc = "gather"
    /\ DeltaIdle
    /\ PathIdle
    /\ CacheIdle
    /\ MainIdle
    /\ BundleIdle
    /\ ChatIdle
    /\ FullIdle
    /\ SliceIdle
    /\ AutoIdle
    /\ GatherIdle
    /\ DiffsIdle
    /\ RenameIdle
    /\ AnchorIdle
    /\ UniqIdle
    /\ FollowIdle

NextIndex ==
    \/ \E a \in AnchorLists, sy \in SymbolLists(WalkFiles[IF filesDone < Len(WalkFiles) THEN filesDone + 1 ELSE 1]) :
          ProcessFile(a, sy)
    \/ SkipFile
    \/ AssembleArtifacts

SpecIndex == InitIndex /\ [][NextIndex]_vars

\* C3: pointer uniqueness.  In the assembled pointer list no two pointers
\* carry the same ID.
C3_UniquePointerIDs ==
    ipc = "done" =>
        \A i, j \in 1..Len(pointers) : i # j => pointers[i].ID # pointers[j].ID

SymbolKey(sy) == Codes(sy.Symbol) \o <<-1>> \o Codes(sy.Path) \o <<-1, sy.Start, sy.End>>

\* the ID the suffix rule gives the k-th symbol of a qname
RuleID(qname, k) ==
    IF k = 1 THEN ReplaceAll(qname, ".", "-")
    ELSE ReplaceAll(qname, ".", "-") \o <<"-">> \o Itoa(k)

\* C19: suffix rule.  Among the symbols that share a qname, in (qname,
\* path, start, end) order, the first has the pointer ID of the qname with
\* '.' replaced by '-', and the k-th (k >= 2) that ID followed by -k;
\* no pointer comes from a symbol with an empty qname.
C19_SuffixRule ==
    ipc = "done" =>
        /\ \A i \in 1..Len(idxSymbols) :
              LET sy == idxSymbols[i]
                  k  == 1 + Cardinality({j \in 1..Len(idxSymbols) :
                                /\ idxSymbols[j].Symbol = sy.Symbol
                                /\ LexLess(SymbolKey(idxSymbols[j]), SymbolKey(sy))})
              IN  sy.Symbol # <<>> =>
                      \E q \in 1..Len(pointers) :
                          /\ pointers[q].Sym = sy.Symbol
                          /\ pointers[q].Path = sy.Path
                          /\ pointers[q].Start = sy.Start
                          /\ pointers[q].End = sy.End
                          /\ pointers[q].ID = RuleID(sy.Symbol, k)
        /\ Cardinality({q \in 1..Len(pointers) : pointers[q].Sym # <<>>})
               = Cardinality({i \in 1..Len(idxSymbols) : idxSymbols[i].Symbol # <<>>})

-----------------------------------------------------------------------------
(* ziputil.SanitizePath and bundle.sanitizeZipPath                         *)

MaxPathLen == 4

PathAlphabet == {"/", "\\", ".", ":", "C", "a"}

RECURSIVE StringsUpTo(_)
StringsUpTo(n) ==
    IF n = 0 THEN {<<>>}
    ELSE LET shorter == StringsUpTo(n - 1)
         IN  shorter \cup {Append(t, c) : t \in {u \in shorter : Len(u) = n - 1}, c \in PathAlphabet}

PathStrings == StringsUpTo(MaxPathLen)

\* filepath.ToSlash: replaces filepath.Separator by '/', a no-op where the
\* separator already is '/'.
ToSlash(p, os) == IF os = "windows" THEN ReplaceAll(p, "\\", "/") ELSE p

\* strings.Split(s, sep) for a one-character separator
Split(s, sep) ==
    LET loop[i \in 0..Len(s)] ==
            IF i = 0 THEN <<<<>>>>
            ELSE LET acc == loop[i - 1]
                     n   == Len(acc)
                 IN  IF s[i] = sep THEN Append(acc, <<>>)
                     ELSE [acc EXCEPT ![n] = Append(acc[n], s[i])]
    IN  loop[Len(s)]

\* strings.Join(parts, sep)
RECURSIVE Join(_, _)
Join(parts, sep) ==
    IF Len(parts) = 0 THEN <<>>
    ELSE IF Len(parts) = 1 THEN parts[1]
    ELSE parts[1] \o <<sep>> \o Join(Tail(parts), sep)

\* The stack loop shared by both sanitizers: drops "" and ".", pops on "..".
ResolveDots(parts) ==
    LET loop[i \in 0..Len(parts)] ==
            IF i = 0 THEN <<>>
            ELSE LET stack == loop[i - 1]
                     part  == parts[i]
                 IN  IF part = <<>> \/ part = <<".">> THEN stack
                     ELSE IF part = <<".", ".">>
                          THEN IF Len(stack) > 0 THEN SubSeq(stack, 1, Len(stack) - 1) ELSE stack
                     ELSE Append(stack, part)
    IN  loop[Len(parts)]

\* ---- SanitizePath (ziputil, part_006:18) ----
SanitizePath(p, os) ==
    LET s0 == ToSlash(p, os)
        s1 == IF Len(s0) > 1 /\ s0[2] = ":" THEN SubSeq(s0, 3, Len(s0)) ELSE s0
        s2 == TrimLeftCh(s1, "/")
        s3 == Join(ResolveDots(Split(s2, "/")), "/")
    IN  IF s3 = <<>> THEN <<"e", "n", "t", "r", "y">> ELSE s3

\* ---- sanitizeZipPath (bundle, zipdelta.go:169) ----
sanitizeZipPath(p, os) ==
    LET s0    == ToSlash(p, os)
        s1    == IF Len(s0) > 1 /\ s0[2] = ":" THEN SubSeq(s0, 3, Len(s0)) ELSE s0
        s2    == TrimLeftCh(s1, "/")
        parts == Split(s2, "/")
        s3    == Join(ResolveDots(parts), "/")
    IN  IF s3 = <<>> THEN <<"e", "n", "t", "r", "y">> ELSE s3

\* writeBytes & co. of ziputil name their entry SanitizePath(name)
CallSanitizePath ==
    /\ ppc = "call"
    /\ pathOut' = SanitizePath(pathIn, goos)
    /\ ppc' = "ziputil"
    /\ UNCHANGED <<pathIn, goos>>
    /\ UNCHANGED nonPathVars

\* the bundle writers name their entry sanitizeZipPath(name)
CallSanitizeZipPath ==
    /\ ppc = "call"
    /\ pathOut' = sanitizeZipPath(pathIn, goos)
    /\ ppc' = "bundle"
    /\ UNCHANGED <<pathIn, goos>>
    /\ UNCHANGED nonPathVars

InitPath ==
    /\ pathIn \in PathStrings
    /\ goos \in {"linux", "windows"}
    /\ pathOut = <<>>
    /\ ppc = "call"
    /\ DeltaIdle
    /\ IndexIdle
    /\ CacheIdle
    /\ MainIdle
    /\ BundleIdle
    /\ ChatIdle
    /\ FullIdle
    /\ SliceIdle
    /\ AutoIdle
    /\ GatherIdle
    /\ DiffsIdle
    /\ RenameIdle
    /\ AnchorIdle
    /\ UniqIdle
    /\ FollowIdle

NextPath == CallSanitizePath \/ CallSanitizeZipPath

SpecPath == InitPath /\ [][NextPath]_vars

DriveLetters == {"C", "a"}

HasDrivePrefix(s) == Len(s) >= 2 /\ s[1] \in DriveLetters /\ s[2] = ":"

\* C4: path safety.  For every input the sanitized entry name is non-empty,
\* has no ".." segment, does not start with "/", carries no drive prefix
\* "X:" and contains no separator other than "/".
C4_SanitizedPathSafe ==
    ppc # "call" =>
        /\ pathOut # <<>>
        /\ \A i \in 1..Len(Split(pathOut, "/")) : Split(pathOut, "/")[i] # <<".", ".">>
        /\ pathOut[1] # "/"
        /\ ~HasDrivePrefix(pathOut)
        /\ \A i \in 1..Len(pathOut) : pathOut[i] # "\\"

-----------------------------------------------------------------------------
(* internal/cache: Load, Save, SaveBlob, ReadBlob over one cache directory *)

NSnaps == 2        \* distinct snapshots
NData == 2         \* distinct blob contents
Chunks == 2        \* write(2) calls that complete a file

Procs == {1, 2}

indexFileName == "index.json"

\* blobPath(dir, h) for the one hash h the processes use
blobName == "blob"

TmpNames == [p \in Procs |-> IF p = 1 THEN ".tmp-1" ELSE ".tmp-2"]

FileNames == {indexFileName, blobName} \cup {TmpNames[p] : p \in Procs}

EmptyDir == [n \in FileNames |-> 0]

Complete(v) == [val |-> v, n |-> Chunks]

\* os.Create(final) in place of createTempFile: writes go to the target itself
createInPlace(ino, dir, p, base) ==
    IF dir[base] # 0
    THEN [inodes  |-> [ino EXCEPT ![dir[base]] = [val |-> 0, n |-> 0]],
          dirents |-> dir, name |-> base, fd |-> dir[base]]
    ELSE [inodes  |-> Append(ino, [val |-> 0, n |-> 0]),
          dirents |-> [dir EXCEPT ![base] = Len(ino) + 1],
          name    |-> base, fd |-> Len(ino) + 1]

\* ---- createTempFile (snapshot.go:185): a fresh, empty, uniquely named file ----
createTempFile(ino, dir, p, base) ==
    [inodes  |-> Append(ino, [val |-> 0, n |-> 0]),
     dirents |-> [dir EXCEPT ![TmpNames[p]] = Len(ino) + 1],
     name    |-> TmpNames[p],
     fd      |-> Len(ino) + 1]

\* os.Remove(name)
Remove(dir, name) == [dir EXCEPT ![name] = 0]

\* os.Rename(from, to): atomically replaces to
Rename(dir, from, to) ==
    IF from = to THEN dir ELSE [dir EXCEPT ![to] = dir[from], ![from] = 0]

\* one write(2) of the payload v to the open file fd
WriteChunk(ino, fd, v) == [ino EXCEPT ![fd] = [val |-> v, n |-> ino[fd].n + 1]]

\* return err / return nil
Return(p, r) ==
    /\ cpc' = [cpc EXCEPT ![p] = "ret"]
    /\ cres' = [cres EXCEPT ![p] = r]
    /\ cfd' = [cfd EXCEPT ![p] = 0]

\* ---- Save (snapshot.go:73) ----
\* entry: a process calls Save(dir, s)
CallSave(p, sn) ==
    /\ cpc[p] = "idle"
    /\ cpc' = [cpc EXCEPT ![p] = "s_temp"]
    /\ call' = [call EXCEPT ![p] = [op |-> "Save", arg |-> sn, hashOk |-> TRUE]]
    /\ saved' = saved \cup {sn}
    /\ UNCHANGED <<inodes, dirents, cfd, ctmp, cres, lpc, lfd, lres>>
    /\ UNCHANGED nonCacheVars

\* snapshot.go:74-80: MkdirAll and createTempFile; on error return it
SaveCreateTemp(p, ok) ==
    /\ cpc[p] = "s_temp"
    /\ IF ok
       THEN LET t == createTempFile(inodes, dirents, p, indexFileName)
            IN  /\ inodes' = t.inodes
                /\ dirents' = t.dirents
                /\ ctmp' = [ctmp EXCEPT ![p] = t.name]
                /\ cfd' = [cfd EXCEPT ![p] = t.fd]
                /\ cpc' = [cpc EXCEPT ![p] = "s_encode"]
                /\ UNCHANGED cres
       ELSE /\ Return(p, "err")
            /\ UNCHANGED <<inodes, dirents, ctmp>>
    /\ UNCHANGED <<call, lpc, lfd, lres, saved>>
    /\ UNCHANGED nonCacheVars

\* snapshot.go:81-87: enc.Encode(s); on error Close, Remove(tmp), return
SaveEncode(p, ok) ==
    /\ cpc[p] = "s_encode"
    /\ IF ok
       THEN /\ inodes' = WriteChunk(inodes, cfd[p], call[p].arg)
            /\ cpc' = [cpc EXCEPT ![p] =
                          IF inodes[cfd[p]].n + 1 = Chunks THEN "s_sync" ELSE "s_encode"]
            /\ UNCHANGED <<dirents, cfd, cres>>
       ELSE /\ dirents' = Remove(dirents, ctmp[p])
            /\ Return(p, "err")
            /\ UNCHANGED inodes
    /\ UNCHANGED <<call, ctmp, lpc, lfd, lres, saved>>
    /\ UNCHANGED nonCacheVars

\* snapshot.go:88-92: f.Sync(); on error Close, Remove(tmp), return
SaveSync(p, ok) ==
    /\ cpc[p] = "s_sync"
    /\ IF ok
       THEN /\ cpc' = [cpc EXCEPT ![p] = "s_close"]
            /\ UNCHANGED <<dirents, cfd, cres>>
       ELSE /\ dirents' = Remove(dirents, ctmp[p])
            /\ Return(p, "err")
    /\ UNCHANGED <<inodes, call, ctmp, lpc, lfd, lres, saved>>
    /\ UNCHANGED nonCacheVars

\* snapshot.go:93-96: f.Close(); on error Remove(tmp), return
SaveClose(p, ok) ==
    /\ cpc[p] = "s_close"
    /\ IF ok
       THEN /\ cpc' = [cpc EXCEPT ![p] = "s_rename"]
            /\ cfd' = [cfd EXCEPT ![p] = 0]
            /\ UNCHANGED <<dirents, cres>>
       ELSE /\ dirents' = Remove(dirents, ctmp[p])
            /\ Return(p, "err")
    /\ UNCHANGED <<inodes, call, ctmp, lpc, lfd, lres, saved>>
    /\ UNCHANGED nonCacheVars

\* snapshot.go:97-98: return os.Rename(tmp, final)
SaveRename(p, ok) ==
    /\ cpc[p] = "s_rename"
    /\ IF ok
       THEN /\ dirents' = Rename(dirents, ctmp[p], indexFileName)
            /\ Return(p, "nil")
       ELSE /\ Return(p, "err")
            /\ UNCHANGED dirents
    /\ UNCHANGED <<inodes, call, ctmp, lpc, lfd, lres, saved>>
    /\ UNCHANGED nonCacheVars

\* ---- SaveBlob (snapshot.go:120) ----
\* entry and hash validation (snapshot.go:121-123)
CallSaveBlob(p, d, hexOk) ==
    /\ cpc[p] = "idle"
    /\ call' = [call EXCEPT ![p] = [op |-> "SaveBlob", arg |-> d, hashOk |-> hexOk]]
    /\ IF hexOk
       THEN /\ cpc' = [cpc EXCEPT ![p] = "b_stat"]
            /\ UNCHANGED <<cres, cfd>>
       ELSE Return(p, "err")
    /\ UNCHANGED <<inodes, dirents, ctmp, lpc, lfd, lres, saved>>
    /\ UNCHANGED nonCacheVars

\* snapshot.go:125-128: fast path, if the blob exists return nil
BlobStat(p) ==
    /\ cpc[p] = "b_stat"
    /\ IF dirents[blobName] # 0
       THEN Return(p, "nil")
       ELSE /\ cpc' = [cpc EXCEPT ![p] = "b_temp"]
            /\ UNCHANGED <<cres, cfd>>
    /\ UNCHANGED <<inodes, dirents, call, ctmp, lpc, lfd, lres, saved>>
    /\ UNCHANGED nonCacheVars

\* snapshot.go:129-136: MkdirAll and createTempFile; on error return it
BlobCreateTemp(p, ok) ==
    /\ cpc[p] = "b_temp"
    /\ IF ok
       THEN LET t == createTempFile(inodes, dirents, p, blobName)
            IN  /\ inodes' = t.inodes
                /\ dirents' = t.dirents
                /\ ctmp' = [ctmp EXCEPT ![p] = t.name]
                /\ cfd' = [cfd EXCEPT ![p] = t.fd]
                /\ cpc' = [cpc EXCEPT ![p] = "b_copy"]
                /\ UNCHANGED cres
       ELSE /\ Return(p, "err")
            /\ UNCHANGED <<inodes, dirents, ctmp>>
    /\ UNCHANGED <<call, lpc, lfd, lres, saved>>
    /\ UNCHANGED nonCacheVars

\* snapshot.go:137-141: io.Copy(f, r); on error Close, Remove(tmp), return
BlobCopy(p, ok) ==
    /\ cpc[p] = "b_copy"
    /\ IF ok
       THEN /\ inodes' = WriteChunk(inodes, cfd[p], call[p].arg)
            /\ cpc' = [cpc EXCEPT ![p] =
                          IF inodes[cfd[p]].n + 1 = Chunks THEN "b_sync" ELSE "b_copy"]
            /\ UNCHANGED <<dirents, cfd, cres>>
       ELSE /\ dirents' = Remove(dirents, ctmp[p])
            /\ Return(p, "err")
            /\ UNCHANGED inodes
    /\ UNCHANGED <<call, ctmp, lpc, lfd, lres, saved>>
    /\ UNCHANGED nonCacheVars

\* snapshot.go:142-146: f.Sync(); on error Close, Remove(tmp), return
BlobSync(p, ok) ==
    /\ cpc[p] = "b_sync"
    /\ IF ok
       THEN /\ cpc' = [cpc EXCEPT ![p] = "b_close"]
            /\ UNCHANGED <<dirents, cfd, cres>>
       ELSE /\ dirents' = Remove(dirents, ctmp[p])
            /\ Return(p, "err")
    /\ UNCHANGED <<inodes, call, ctmp, lpc, lfd, lres, saved>>
    /\ UNCHANGED nonCacheVars

\* snapshot.go:147-150: f.Close(); on error Remove(tmp), return
BlobClose(p, ok) ==
    /\ cpc[p] = "b_close"
    /\ IF ok
       THEN /\ cpc' = [cpc EXCEPT ![p] = "b_rename"]
            /\ cfd' = [cfd EXCEPT ![p] = 0]
            /\ UNCHANGED <<dirents, cres>>
       ELSE /\ dirents' = Remove(dirents, ctmp[p])
            /\ Return(p, "err")
    /\ UNCHANGED <<inodes, call, ctmp, lpc, lfd, lres, saved>>
    /\ UNCHANGED nonCacheVars

\* snapshot.go:151: return os.Rename(tmp, blobPath)
BlobRename(p, ok) ==
    /\ cpc[p] = "b_rename"
    /\ IF ok
       THEN /\ dirents' = Rename(dirents, ctmp[p], blobName)
            /\ Return(p, "nil")
       ELSE /\ Return(p, "err")
            /\ UNCHANGED dirents
    /\ UNCHANGED <<inodes, call, ctmp, lpc, lfd, lres, saved>>
    /\ UNCHANGED nonCacheVars

\* ---- Load (snapshot.go:54) ----
\* os.ReadFile opens index.json; a missing file makes Load return (nil, nil)
LoadOpen ==
    /\ lpc = "idle"
    /\ IF dirents[indexFileName] = 0
       THEN /\ lpc' = "done"
            /\ lres' = [kind |-> "nil", val |-> 0]
            /\ UNCHANGED lfd
       ELSE /\ lpc' = "open"
            /\ lfd' = dirents[indexFileName]
            /\ UNCHANGED lres
    /\ UNCHANGED <<inodes, dirents, cpc, call, cfd, ctmp, cres, saved>>
    /\ UNCHANGED nonCacheVars

\* os.ReadFile reads the open file, json.Unmarshal decodes what was read
LoadRead ==
    /\ lpc = "open"
    /\ lpc' = "done"
    /\ lres' = IF inodes[lfd].n = Chunks
               THEN [kind |-> "snapshot", val |-> inodes[lfd].val]
               ELSE [kind |-> "error", val |-> inodes[lfd].n]
    /\ UNCHANGED <<inodes, dirents, cpc, call, cfd, ctmp, cres, lfd, saved>>
    /\ UNCHANGED nonCacheVars

\* ---- ReadBlob (snapshot.go:155) ----
ReadBlob ==
    IF dirents[blobName] = 0
    THEN [err |-> TRUE, val |-> 0, n |-> 0]
    ELSE [err |-> FALSE, val |-> inodes[dirents[blobName]].val, n |-> inodes[dirents[blobName]].n]

\* The cache directory before the calls: index.json and the blob are absent
\* or were published completely by an earlier run.
InitCache ==
    /\ \E sn \in 0..NSnaps, d \in 0..NData :
          /\ inodes = (IF sn = 0 THEN <<>> ELSE <<Complete(sn)>>)
                        \o (IF d = 0 THEN <<>> ELSE <<Complete(d)>>)
          /\ dirents = [EmptyDir EXCEPT ![indexFileName] = IF sn = 0 THEN 0 ELSE 1,
                                        ![blobName] = IF d = 0 THEN 0
                                                      ELSE IF sn = 0 THEN 1 ELSE 2]
          /\ saved = IF sn = 0 THEN {} ELSE {sn}
    /\ cpc = [p \in Procs |-> "idle"]
    /\ call = [p \in Procs |-> [op |-> "none", arg |-> 0, hashOk |-> TRUE]]
    /\ cfd = [p \in Procs |-> 0]
    /\ ctmp = [p \in Procs |-> ""]
    /\ cres = [p \in Procs |-> "none"]
    /\ lpc = "idle"
    /\ lfd = 0
    /\ lres = [kind |-> "pending", val |-> 0]
    /\ DeltaIdle
    /\ IndexIdle
    /\ PathIdle
    /\ MainIdle
    /\ BundleIdle
    /\ ChatIdle
    /\ FullIdle
    /\ SliceIdle
    /\ AutoIdle
    /\ GatherIdle
    /\ DiffsIdle
    /\ RenameIdle
    /\ AnchorIdle
    /\ UniqIdle
    /\ FollowIdle

NextCache ==
    \/ \E p \in Procs, sn \in 1..NSnaps : CallSave(p, sn)
    \/ \E p \in Procs, ok \in BOOLEAN : SaveCreateTemp(p, ok)
    \/ \E p \in Procs, ok \in BOOLEAN : SaveEncode(p, ok)
    \/ \E p \in Procs, ok \in BOOLEAN : SaveSync(p, ok)
    \/ \E p \in Procs, ok \in BOOLEAN : SaveClose(p, ok)
    \/ \E p \in Procs, ok \in BOOLEAN : SaveRename(p, ok)
    \/ \E p \in Procs, d \in 1..NData, hexOk \in BOOLEAN : CallSaveBlob(p, d, hexOk)
    \/ \E p \in Procs : BlobStat(p)
    \/ \E p \in Procs, ok \in BOOLEAN : BlobCreateTemp(p, ok)
    \/ \E p \in Procs, ok \in BOOLEAN : BlobCopy(p, ok)
    \/ \E p \in Procs, ok \in BOOLEAN : BlobSync(p, ok)
    \/ \E p \in Procs, ok \in BOOLEAN : BlobClose(p, ok)
    \/ \E p \in Procs, ok \in BOOLEAN : BlobRename(p, ok)
    \/ LoadOpen
    \/ LoadRead

SpecCache == InitCache /\ [][NextCache]_vars

\* C5: atomic publish.  In every interleaving of Save calls with a Load on
\* the same directory, Load returns no snapshot or a complete snapshot that
\* was passed to some Save; it never decodes a partially written index.json.
C5_LoadNeverPartial ==
    lpc = "done" =>
        \/ lres.kind = "nil"
        \/ lres.kind = "snapshot" /\ lres.val \in saved

\* A Load that opened index.json while a Save had written part of its
\* temporary file, and returned a snapshot.
C5_Witness ==
    /\ lpc = "done"
    /\ lres.kind = "snapshot"
    /\ \E p \in Procs : cpc[p] = "s_encode" /\ inodes[cfd[p]].n = 1

\* C6: blobs are write-once.  Once the blob of a hash exists, no step of any
\* SaveBlob call, sequential or concurrent, changes what ReadBlob returns.
C6_BlobWriteOnce ==
    [][dirents[blobName] # 0 => ReadBlob' = ReadBlob]_vars

Target(p) ==
    LET name == IF call[p].op = "Save" THEN indexFileName ELSE blobName
    IN  IF dirents[name] = 0 THEN [present |-> FALSE, val |-> 0, n |-> 0]
        ELSE [present |-> TRUE, val |-> inodes[dirents[name]].val, n |-> inodes[dirents[name]].n]

\* C7: error cleanup.  Whenever Save or SaveBlob returns an error, whichever
\* step failed, the temporary file the call created is gone, and the failing
\* step left the target file as it was.
C7_ErrorRemovesTemp ==
    /\ [](\A p \in Procs : cres[p] = "err" => dirents[TmpNames[p]] = 0)
    /\ [][\A p \in Procs : (cres[p] # "err" /\ cres'[p] = "err") => Target(p)' = Target(p)]_vars

-----------------------------------------------------------------------------
(* cmd/class-collector: main                                               *)

CommandLines ==
    [flagsOk : BOOLEAN, nargs : 0..1, zip : BOOLEAN, delta : BOOLEAN, chat : BOOLEAN,
     resetCache : BOOLEAN, storeBlobs : BOOLEAN, saveSnapOnFull : BOOLEAN,
     validateJSON : BOOLEAN]

\* what earlier runs left in the project's cache directory (snapshot.go:23-60, 120)
CacheEntries == {"oldSnapshot", "oldBlobs"}

\* ---- logFatal (main.go:73): print the error and os.Exit(1) ----
logFatal ==
    /\ mpc' = "exit"
    /\ exitCode' = 1

\* return from main without error
exitOk ==
    /\ mpc' = "exit"
    /\ exitCode' = 0

\* the call op has returned, with or without an error
Step(op, ok) == steps' = Append(steps, [op |-> op, ok |-> ok])

\* ---- parseFlags (main.go:128) ----
ParseFlags ==
    /\ mpc = "parse"
    /\ IF ~args.flagsOk \/ args.nargs < 1 THEN logFatal
       ELSE mpc' = "options" /\ UNCHANGED exitCode
    /\ UNCHANGED <<args, effects, oldCache, cache0, steps>>
    /\ UNCHANGED nonMainVars

\* ---- buildOptions (main.go:222): never fails ----
BuildOptions ==
    /\ mpc = "options"
    /\ mpc' = "select"
    /\ UNCHANGED <<args, exitCode, effects, oldCache, cache0, steps>>
    /\ UNCHANGED nonMainVars

\* ---- selectMode (main.go:235) ----
selectMode(cfg) ==
    IF (cfg.zip /\ cfg.delta) \/ (cfg.zip /\ cfg.chat) \/ (cfg.delta /\ cfg.chat) THEN "error"
    ELSE IF cfg.zip THEN "full"
    ELSE IF cfg.delta THEN "delta"
    ELSE IF cfg.chat THEN "chat"
    ELSE "error"

SelectMode ==
    /\ mpc = "select"
    /\ IF selectMode(args) = "error" THEN logFatal
       ELSE mpc' = selectMode(args) /\ UNCHANGED exitCode
    /\ UNCHANGED <<args, effects, oldCache, cache0, steps>>
    /\ UNCHANGED nonMainVars

\* ---- collectFiles, first step of runFull / runDelta / runChat ----
CollectFiles(outcome) ==
    /\ mpc \in {"full", "delta", "chat"}
    /\ CASE outcome = "err"   -> logFatal
         [] outcome = "empty" -> exitOk
         [] OTHER             -> /\ mpc' = (IF mpc = "full" THEN "full_build"
                                            ELSE IF mpc = "delta" THEN "delta_clear"
                                            ELSE "chat_write")
                                 /\ UNCHANGED exitCode
    /\ Step("collectFiles", outcome # "err")
    /\ UNCHANGED <<args, effects, oldCache, cache0>>
    /\ UNCHANGED nonMainVars

\* ---- runFull (main.go:264-271): BuildArtifacts, graph, meta; no error path ----
FullBuild ==
    /\ mpc = "full_build"
    /\ mpc' = "full_validate"
    /\ Step("BuildArtifacts", TRUE)
    /\ UNCHANGED <<args, exitCode, effects, oldCache, cache0>>
    /\ UNCHANGED nonMainVars

\* what validate.Manifest and validate.Symbols find in the artifacts
ValidationOutcomes == {"ok", "manifest", "symbols"}

\* mutant of validationError: the findings are not returned
validationErrorIgnored(validateJSON, outcome) == FALSE

\* ---- runFull (main.go:272-279): does the validation block return an error ----
validationError(validateJSON, outcome) == validateJSON /\ outcome # "ok"

\* ---- runFull (main.go:272-279): validate.Manifest, validate.Symbols ----
FullValidate(outcome) ==
    /\ mpc = "full_validate"
    /\ IF validationError(args.validateJSON, outcome) THEN logFatal
       ELSE mpc' = "full_write" /\ UNCHANGED exitCode
    /\ steps' = IF ~args.validateJSON THEN steps
                ELSE IF outcome = "manifest"
                THEN Append(steps, [op |-> "validate.Manifest", ok |-> FALSE])
                ELSE steps \o <<[op |-> "validate.Manifest", ok |-> TRUE],
                                [op |-> "validate.Symbols", ok |-> (outcome = "ok")]>>
    /\ UNCHANGED <<args, effects, oldCache, cache0>>
    /\ UNCHANGED nonMainVars

\* ---- runFull (main.go:281-284): pickIndexedFiles, WriteFull ----
FullWrite(ok) ==
    /\ mpc = "full_write"
    /\ IF ok THEN /\ effects' = effects \cup {"archive"}
                  /\ mpc' = "full_persist"
                  /\ UNCHANGED exitCode
       ELSE logFatal /\ UNCHANGED effects
    /\ Step("WriteFull", ok)
    /\ UNCHANGED <<args, oldCache, cache0>>
    /\ UNCHANGED nonMainVars

\* ---- persistSnapshotOnFull (main.go:449) ----
FullPersist(ok) ==
    /\ mpc = "full_persist"
    /\ IF ~args.saveSnapOnFull THEN exitOk /\ UNCHANGED <<effects, oldCache, steps>>
       ELSE IF ok THEN /\ exitOk
                       /\ effects' = effects \cup {"snapshot"}
                       /\ oldCache' = oldCache \ {"oldSnapshot"}
                       /\ Step("cache.Save", TRUE)
       ELSE logFatal /\ Step("cache.Save", FALSE) /\ UNCHANGED <<effects, oldCache>>
    /\ UNCHANGED <<args, cache0>>
    /\ UNCHANGED nonMainVars

\* mutant of clearRequested: the cache is cleared on every DELTA run
clearRequestedAlways(cfg) == TRUE

\* ---- runDelta (main.go:311): if cfg.resetCache ----
clearRequested(cfg) == cfg.resetCache

\* ---- runDelta (main.go:307-315): cacheDirFor, cache.Clear under -new ----
DeltaClear(ok) ==
    /\ mpc = "delta_clear"
    /\ IF ~clearRequested(args) THEN /\ mpc' = "delta_snapshot"
                                /\ UNCHANGED <<exitCode, effects, oldCache, steps>>
       ELSE IF ok THEN /\ effects' = effects \cup {"cacheCleared"}
                       /\ oldCache' = {}
                       /\ mpc' = "delta_snapshot"
                       /\ Step("cache.Clear", TRUE)
                       /\ UNCHANGED exitCode
       ELSE /\ logFatal
            /\ oldCache' \in SUBSET oldCache
            /\ Step("cache.Clear", FALSE)
            /\ UNCHANGED effects
    /\ UNCHANGED <<args, cache0>>
    /\ UNCHANGED nonMainVars

\* ---- buildSnapshot (main.go:484): SaveBlob per file under -store-blobs ----
DeltaBuildSnapshot(ok) ==
    /\ mpc = "delta_snapshot"
    /\ IF ~args.storeBlobs THEN /\ mpc' = "delta_load"
                                /\ Step("buildSnapshot", TRUE)
                                /\ UNCHANGED <<exitCode, effects>>
       ELSE IF ok THEN /\ effects' = effects \cup {"blob"}
                       /\ mpc' = "delta_load"
                       /\ Step("buildSnapshot", TRUE)
                       /\ UNCHANGED exitCode
       ELSE logFatal /\ Step("buildSnapshot", FALSE) /\ UNCHANGED effects
    /\ UNCHANGED <<args, oldCache, cache0>>
    /\ UNCHANGED nonMainVars

\* ---- runDelta (main.go:322-328): cache.Load ----
DeltaLoad(ok) ==
    /\ mpc = "delta_load"
    /\ IF ok THEN mpc' = "delta_diffs" /\ UNCHANGED exitCode
       ELSE logFatal
    /\ Step("cache.Load", ok)
    /\ UNCHANGED <<args, effects, oldCache, cache0>>
    /\ UNCHANGED nonMainVars

\* ---- runDelta (main.go:330-345): BuildDelta, MakeDiffs ----
DeltaDiffs(ok) ==
    /\ mpc = "delta_diffs"
    /\ IF ok THEN mpc' = "delta_write" /\ UNCHANGED exitCode
       ELSE logFatal
    /\ Step("MakeDiffs", ok)
    /\ UNCHANGED <<args, effects, oldCache, cache0>>
    /\ UNCHANGED nonMainVars

\* ---- runDelta (main.go:347-351): makeDeltaIndex, WriteDelta ----
DeltaWrite(ok) ==
    /\ mpc = "delta_write"
    /\ IF ok THEN /\ effects' = effects \cup {"archive"}
                  /\ mpc' = "delta_save"
                  /\ UNCHANGED exitCode
       ELSE logFatal /\ UNCHANGED effects
    /\ Step("WriteDelta", ok)
    /\ UNCHANGED <<args, oldCache, cache0>>
    /\ UNCHANGED nonMainVars

\* ---- runDelta (main.go:352-354): cache.Save ----
DeltaSave(ok) ==
    /\ mpc = "delta_save"
    /\ IF ok THEN /\ exitOk
                  /\ effects' = effects \cup {"snapshot"}
                  /\ oldCache' = oldCache \ {"oldSnapshot"}
       ELSE logFatal /\ UNCHANGED <<effects, oldCache>>
    /\ Step("cache.Save", ok)
    /\ UNCHANGED <<args, cache0>>
    /\ UNCHANGED nonMainVars

\* ---- runChat (main.go:371-382): BuildArtifacts, WriteChat ----
ChatWrite(ok) ==
    /\ mpc = "chat_write"
    /\ IF ok THEN exitOk /\ effects' = effects \cup {"archive"}
       ELSE logFatal /\ UNCHANGED effects
    /\ Step("WriteChat", ok)
    /\ UNCHANGED <<args, oldCache, cache0>>
    /\ UNCHANGED nonMainVars

InitMain ==
    /\ args \in CommandLines
    /\ mpc = "parse"
    /\ exitCode = -1
    /\ effects = {}
    /\ oldCache \in SUBSET CacheEntries
    /\ cache0 = oldCache
    /\ steps = <<>>
    /\ DeltaIdle
    /\ IndexIdle
    /\ PathIdle
    /\ CacheIdle
    /\ BundleIdle
    /\ ChatIdle
    /\ FullIdle
    /\ SliceIdle
    /\ AutoIdle
    /\ GatherIdle
    /\ DiffsIdle
    /\ RenameIdle
    /\ AnchorIdle
    /\ UniqIdle
    /\ FollowIdle

NextMain ==
    \/ ParseFlags
    \/ BuildOptions
    \/ SelectMode
    \/ \E outcome \in {"err", "empty", "files"} : CollectFiles(outcome)
    \/ FullBuild
    \/ \E outcome \in ValidationOutcomes : FullValidate(outcome)
    \/ \E ok \in BOOLEAN : FullWrite(ok)
    \/ \E ok \in BOOLEAN : FullPersist(ok)
    \/ \E ok \in BOOLEAN : DeltaClear(ok)
    \/ \E ok \in BOOLEAN : DeltaBuildSnapshot(ok)
    \/ \E ok \in BOOLEAN : DeltaLoad(ok)
    \/ \E ok \in BOOLEAN : DeltaDiffs(ok)
    \/ \E ok \in BOOLEAN : DeltaWrite(ok)
    \/ \E ok \in BOOLEAN : DeltaSave(ok)
    \/ \E ok \in BOOLEAN : ChatWrite(ok)

SpecMain == InitMain /\ [][NextMain]_vars

ModesGiven(cfg) ==
    (IF cfg.zip THEN 1 ELSE 0) + (IF cfg.delta THEN 1 ELSE 0) + (IF cfg.chat THEN 1 ELSE 0)

InvalidCommandLine(cfg) == cfg.nargs < 1 \/ ModesGiven(cfg) # 1

\* C8: argument errors.  When <src_dir> is missing, more than one of
\* -zip/-delta/-chat is given or no mode is selected, the program exits with
\* code 2 and has produced no side effect.
C8_InvalidArgsExit2 ==
    (mpc = "exit" /\ InvalidCommandLine(args)) => (exitCode = 2 /\ effects = {})

-----------------------------------------------------------------------------

\* the build of a FULL or DELTA run: everything after collectFiles returned files
InBuild ==
    mpc \in {"full_build", "full_validate", "full_write", "full_persist",
             "delta_snapshot", "delta_load", "delta_diffs", "delta_write", "delta_save"}

\* C15: -new.  Under -new the cache directory of the project, snapshot and
\* blobs, has been cleared by the time the build runs, in FULL mode as in
\* DELTA mode: nothing that earlier runs wrote is still there.
C15_NewClearsCache ==
    (args.resetCache /\ InBuild) => oldCache = {}

-----------------------------------------------------------------------------
(* internal/index: ComputeBundleID                                         *)

MaxFiles == 2

RawPaths == { <<"a">>, <<".", "/", "a">>, <<"a", "\\", "/", "b">> }

RawHashes == { <<"A", "1">>, <<"a", "1">> }

ManFiles == [Path : RawPaths, Hash : RawHashes, Lines : 1..2]

RECURSIVE SeqsUpTo(_, _)
SeqsUpTo(S, n) ==
    IF n = 0 THEN {<<>>}
    ELSE LET shorter == SeqsUpTo(S, n - 1)
         IN  shorter \cup {Append(t, x) : t \in {u \in shorter : Len(u) = n - 1}, x \in S}

Manifests == [Module : {"m1", "m2"}, Files : SeqsUpTo(ManFiles, MaxFiles)]

\* ---- normalizePath (manifest.go:42) ----
normalizePath(p) ==
    LET loop[i \in 0..Len(p)] ==
            IF i = 0 THEN [b |-> <<>>, skipDotSlash |-> FALSE]
            ELSE LET st == loop[i - 1]
                     r  == IF p[i] = "\\" THEN "/" ELSE p[i]
                 IN  IF i = 1 /\ p[i] = "." /\ Len(p) > 1 /\ p[2] = "/"
                     THEN [st EXCEPT !.skipDotSlash = TRUE]
                     ELSE IF st.skipDotSlash /\ p[i] = "/"
                     THEN [st EXCEPT !.skipDotSlash = FALSE]
                     ELSE IF r = "/" /\ Len(st.b) > 0 /\ st.b[Len(st.b)] = "/"
                     THEN st
                     ELSE [st EXCEPT !.b = Append(st.b, r)]
    IN  loop[Len(p)].b

\* ---- toLowerHex (manifest.go:65) ----
toLowerHex(h) ==
    [i \in 1..Len(h) |->
        CASE h[i] = "A" -> "a"
          [] h[i] = "C" -> "c"
          [] OTHER -> h[i]]

\* sort.Strings
SortStrings(lines) ==
    LET keyed == SortKeyed([i \in 1..Len(lines) |-> [key |-> Codes(lines[i]), val |-> lines[i]]])
    IN  [i \in 1..Len(keyed) |-> keyed[i]]

BundleLines(m) ==
    [i \in 1..Len(m.Files) |->
        normalizePath(m.Files[i].Path) \o <<":">> \o toLowerHex(m.Files[i].Hash)]

RECURSIVE WriteLines(_)
WriteLines(lines) ==
    IF Len(lines) = 0 THEN <<>> ELSE Head(lines) \o <<"\n">> \o WriteLines(Tail(lines))

\* the buffer hashed when the lines are not sorted
ComputeBundleIDUnsorted(m) ==
    IF Len(m.Files) = 0 THEN <<>> ELSE WriteLines(BundleLines(m))

\* ---- ComputeBundleID (manifest.go:21) ----
\* SHA-256 is kept abstract: the id is the byte buffer that is hashed.
ComputeBundleID(m) ==
    IF Len(m.Files) = 0 THEN <<>> ELSE WriteLines(SortStrings(BundleLines(m)))

\* assembleArtifacts (manifest.go:282-283): man.BundleID = ComputeBundleID(man)
ComputeFirst ==
    /\ bpc = "built"
    /\ bundleID' = ComputeBundleID(man)
    /\ bpc' = "first"
    /\ UNCHANGED <<man, man2, bundleID2>>
    /\ UNCHANGED nonBundleVars

\* the id of any other manifest
ComputeSecond(m) ==
    /\ bpc = "first"
    /\ man2' = m
    /\ bundleID2' = ComputeBundleID(m)
    /\ bpc' = "second"
    /\ UNCHANGED <<man, bundleID>>
    /\ UNCHANGED nonBundleVars

InitBundle ==
    /\ man \in Manifests
    /\ man2 = [Module |-> "", Files |-> <<>>]
    /\ bundleID = <<>>
    /\ bundleID2 = <<>>
    /\ bpc = "built"
    /\ DeltaIdle
    /\ IndexIdle
    /\ PathIdle
    /\ CacheIdle
    /\ MainIdle
    /\ ChatIdle
    /\ FullIdle
    /\ SliceIdle
    /\ AutoIdle
    /\ GatherIdle
    /\ DiffsIdle
    /\ RenameIdle
    /\ AnchorIdle
    /\ UniqIdle
    /\ FollowIdle

NextBundle ==
    \/ ComputeFirst
    \/ \E m \in Manifests : ComputeSecond(m)

SpecBundle == InitBundle /\ [][NextBundle]_vars

FileKey(f) == <<normalizePath(f.Path), toLowerHex(f.Hash)>>

\* the multiset of (normalizePath(path), toLowerHex(hash)) pairs of a manifest
KeyBag(m) ==
    LET keys == {FileKey(m.Files[i]) : i \in 1..Len(m.Files)}
    IN  [k \in keys |-> Cardinality({i \in 1..Len(m.Files) : FileKey(m.Files[i]) = k})]

\* C9: bundle id law.  Two manifests whose files give the same multiset of
\* (normalizePath(path), toLowerHex(hash)) pairs have the same bundle id,
\* whatever the order of Files and whatever their other fields.
C9_BundleIDLaw ==
    (bpc = "second" /\ KeyBag(man) = KeyBag(man2)) => bundleID = bundleID2

\* Two manifests with the same pairs in the opposite order, written with
\* different raw paths and hashes, other module and other line counts.
C9_Witness ==
    /\ bpc = "second"
    /\ KeyBag(man) = KeyBag(man2)
    /\ Len(man.Files) = 2
    /\ FileKey(man.Files[1]) # FileKey(man.Files[2])
    /\ FileKey(man2.Files[1]) = FileKey(man.Files[2])
    /\ man2.Files[1].Path # man.Files[2].Path
    /\ man2.Files[1].Hash # man.Files[2].Hash
    /\ man2.Files[1].Lines # man.Files[2].Lines
    /\ man2.Module # man.Module

-----------------------------------------------------------------------------
(* chat bundle: writeChatMessages, writeChatEntry, writeBounded            *)

MaxChars == 20         \* largest maxChars
MaxChatFiles == 3      \* files in the chat order
MaxContent == 3        \* largest file size in bytes

\* the fence character (byte 96), written with a stand-in
Backtick == "^"

Min(a, b) == IF a < b THEN a ELSE b

\* The manifest files of the order, with what the disk holds for each.
ChatFiles ==
    [Path : {<<"a">>}, Package : {<<>>, <<"p">>}, Class : {<<>>}, Exports : {<<>>},
     Ext : {".go", ".txt"}, Size : 0..MaxContent, Abs : BOOLEAN, Readable : BOOLEAN]

\* ---- langFromExt (chat writer, autoanchors.go:919) ----
langFromExt(ext) == IF ext = ".go" THEN <<"g", "o">> ELSE <<>>

RECURSIVE JoinExports(_)
JoinExports(ex) ==
    IF Len(ex) = 0 THEN <<>>
    ELSE IF Len(ex) = 1 THEN ex[1]
    ELSE ex[1] \o <<",", " ">> \o JoinExports(Tail(ex))

\* ---- buildHeader (autoanchors.go:836) ----
buildHeader(mf) ==
    <<"#", " ">> \o mf.Path \o <<"\n">>
    \o (IF mf.Package # <<>> \/ mf.Class # <<>>
        THEN <<"-", " ", "P", "a", "c", "k", "a", "g", "e", ":", " ">>
             \o (IF mf.Package # <<>> THEN mf.Package ELSE <<"-">>)
             \o <<"\n", "-", " ", "C", "l", "a", "s", "s", ":", " ">>
             \o (IF mf.Class # <<>> THEN mf.Class ELSE <<"-">>)
             \o <<"\n">>
        ELSE <<>>)
    \o (IF Len(mf.Exports) > 0
        THEN <<"-", " ", "E", "x", "p", "o", "r", "t", "s", ":", " ">>
             \o JoinExports(mf.Exports) \o <<"\n">>
        ELSE <<>>)
    \o <<"\n">>

\* ---- writeBounded (autoanchors.go:870): the bytes that reach the writer ----
writeBounded(data, remain) ==
    IF remain <= 0 THEN <<>> ELSE SubSeq(data, 1, Min(Len(data), remain))

\* the content of a file of the given size
FileContent(size) == [i \in 1..size |-> "x"]

\* ---- writeFileBounded (autoanchors.go:881): an unreadable file writes nothing ----
writeFileBounded(mf, remain) ==
    IF remain <= 0 \/ ~mf.Readable THEN <<>>
    ELSE SubSeq(FileContent(mf.Size), 1, Min(mf.Size, remain))

startFenceOf(mf) == <<Backtick, Backtick, Backtick>> \o langFromExt(mf.Ext) \o <<"\n">>

closeFenceBounded == <<"\n", Backtick, Backtick, Backtick, "\n", "\n">>

closeFenceUnbounded == <<"\n", Backtick, Backtick, Backtick, "\n">>

\* the closing fence line has been written when its first five bytes went out
FenceClosed(out) == Len(out) >= Len(closeFenceUnbounded)

\* ---- writeChatEntry (autoanchors.go:722) ----
\* out: bytes written; written: the returned counter; truncated: the flag.
writeChatEntry(mf, maxChars, written0) ==
    LET sec == buildHeader(mf)
        o1  == writeBounded(sec, maxChars - written0)
        w1  == written0 + Len(o1)
        startFence == startFenceOf(mf)
        o2  == writeBounded(startFence, maxChars - w1)
        w2  == w1 + Len(o2)
        o3  == IF mf.Abs THEN writeFileBounded(mf, maxChars - w2) ELSE <<>>
        w3  == IF mf.Abs /\ w2 < maxChars THEN maxChars - 1 ELSE w2
        o4  == IF w3 < maxChars THEN writeBounded(closeFenceBounded, maxChars - w3)
               ELSE closeFenceUnbounded
        w4  == IF w3 < maxChars THEN w3 + Len(o4) ELSE w3
    IN  IF w1 >= maxChars
        THEN [out |-> o1, written |-> w1, truncated |-> TRUE,
              opened |-> FALSE, content |-> FALSE, closed |-> FALSE]
        ELSE IF w2 >= maxChars
        THEN [out |-> o1 \o o2, written |-> w2, truncated |-> TRUE,
              opened |-> (Len(o2) = Len(startFence)), content |-> FALSE, closed |-> FALSE]
        ELSE [out |-> o1 \o o2 \o o3 \o o4, written |-> w4, truncated |-> (w4 >= maxChars),
              opened |-> TRUE, content |-> (Len(o3) > 0), closed |-> FenceClosed(o4)]

\* ---- normalizeChatLimits (autoanchors.go:620) ----
normalizeChatLimits(maxClasses, maxChars) ==
    [maxClasses |-> IF maxClasses <= 0 THEN 10 ELSE maxClasses,
     maxChars   |-> IF maxChars <= 0 THEN 80000 ELSE maxChars]

\* ---- writeChatMessages (autoanchors.go:684-699): open the next message ----
BeginMessage ==
    /\ chpc = "next"
    /\ chatLeft > 0
    /\ msg' = <<>>
    /\ written' = 0
    /\ classes' = 0
    /\ entries' = <<>>
    /\ metaFiles' = <<>>
    /\ chpc' = "entry"
    /\ UNCHANGED <<chatMax, chatClasses, chatLeft, chatN, metas>>
    /\ UNCHANGED nonChatVars

\* mutant of moreClasses: one file more than maxClasses
moreClassesInclusive(cls, maxClasses, left) == cls <= maxClasses /\ left > 0

\* ---- writeChatMessages (autoanchors.go:701): classes < maxClasses && i < len(order) ----
moreClasses(cls, maxClasses, left) == cls < maxClasses /\ left > 0

\* ---- writeChatMessages (autoanchors.go:701-714): one file of the message ----
WriteChatEntry(mf) ==
    /\ chpc = "entry"
    /\ moreClasses(classes, chatClasses, chatLeft)
    /\ LET r     == writeChatEntry(mf, chatMax, written)
           files == Append(metaFiles, chatN - chatLeft + 1)
       IN  /\ msg' = msg \o r.out
           /\ written' = r.written
           /\ entries' = Append(entries, [opened |-> r.opened, content |-> r.content,
                                          closed |-> r.closed])
           /\ metaFiles' = files
           /\ metas' = IF r.truncated THEN Append(metas, files) ELSE metas
           /\ chpc' = IF r.truncated THEN "next" ELSE "entry"
    /\ chatLeft' = chatLeft - 1
    /\ classes' = classes + 1
    /\ UNCHANGED <<chatMax, chatClasses, chatN>>
    /\ UNCHANGED nonChatVars

\* ---- writeChatMessages (autoanchors.go:701, 717): the inner loop ends ----
EndMessage ==
    /\ chpc = "entry"
    /\ ~moreClasses(classes, chatClasses, chatLeft)
    /\ metas' = Append(metas, metaFiles)
    /\ chpc' = "next"
    /\ UNCHANGED <<chatMax, chatClasses, chatLeft, msg, written, classes, entries, chatN, metaFiles>>
    /\ UNCHANGED nonChatVars

\* ---- writeChatMessages (autoanchors.go:687, 719): the order is exhausted ----
FinishMessages ==
    /\ chpc = "next"
    /\ chatLeft = 0
    /\ chpc' = "done"
    /\ UNCHANGED <<chatMax, chatClasses, chatLeft, msg, written, classes, entries, chatN, metaFiles, metas>>
    /\ UNCHANGED nonChatVars

InitChat ==
    /\ \E mc \in 0..2, mx \in 0..MaxChars :
          /\ chatClasses = normalizeChatLimits(mc, mx).maxClasses
          /\ chatMax = normalizeChatLimits(mc, mx).maxChars
    /\ chatN \in 1..MaxChatFiles
    /\ chatLeft = chatN
    /\ metaFiles = <<>>
    /\ metas = <<>>
    /\ msg = <<>>
    /\ written = 0
    /\ classes = 0
    /\ entries = <<>>
    /\ chpc = "next"
    /\ DeltaIdle
    /\ IndexIdle
    /\ PathIdle
    /\ CacheIdle
    /\ MainIdle
    /\ BundleIdle
    /\ FullIdle
    /\ SliceIdle
    /\ AutoIdle
    /\ GatherIdle
    /\ DiffsIdle
    /\ RenameIdle
    /\ AnchorIdle
    /\ UniqIdle
    /\ FollowIdle

NextChat ==
    \/ BeginMessage
    \/ \E mf \in ChatFiles : WriteChatEntry(mf)
    \/ EndMessage
    \/ FinishMessages

SpecChat == InitChat /\ [][NextChat]_vars

\* C11: every file entry of a chat message whose opening code fence was
\* written also has its closing fence line written after the content, also
\* when the budget ran out while the file was streamed.
C11_FenceClosed ==
    \A i \in 1..Len(entries) : entries[i].opened => entries[i].closed

\* C12: the characters written to one chat message never exceed maxChars.
C12_MessageWithinBudget == Len(msg) <= chatMax

\* writeChatMessages runs to its return
SpecChatFair == SpecChat /\ WF_vars(NextChat)

RECURSIVE Flatten(_)
Flatten(ss) == IF ss = <<>> THEN <<>> ELSE Head(ss) \o Flatten(Tail(ss))

\* the ranks given to a message so far, finished messages first
AssignedRanks == Flatten(metas) \o (IF chpc = "entry" THEN metaFiles ELSE <<>>)

ChatPartition ==
    /\ AssignedRanks = [k \in 1..(chatN - chatLeft) |-> k]
    /\ \A m \in 1..Len(metas) : Len(metas[m]) >= 1 /\ Len(metas[m]) <= chatClasses
    /\ chpc = "entry" => Len(metaFiles) <= chatClasses
    /\ chpc = "done" => chatLeft = 0

-----------------------------------------------------------------------------
(* bundle.WriteFull: emission order of the FULL archive                    *)

RelPaths == { <<"a">>, <<"b">> }

\* files as the caller hands them over: any order, no path twice
FileLists == UNION {Perms(SetToSeq(S)) : S \in SUBSET RelPaths}

FullInputs ==
    [bundleID : BOOLEAN, slices : BOOLEAN, pointers : BOOLEAN, emitSrc : BOOLEAN,
     bench : BOOLEAN, files : FileLists]

\* an archive entry that is not a source file
Entry(n) == [name |-> n, path |-> <<>>]

\* sort.Slice by RelPath
SortRelPaths(fs) ==
    LET keyed == SortKeyed([i \in 1..Len(fs) |-> [key |-> Codes(fs[i]), val |-> fs[i]]])
    IN  [i \in 1..Len(keyed) |-> keyed[i]]

\* ---- writeCoreJson (zipdelta.go:348) ----
writeCoreJson(art) ==
    <<Entry("manifest.json"), Entry("symbols.json")>>
    \o (IF art.bundleID THEN <<Entry("BUNDLE.ID")>> ELSE <<>>)
    \o <<Entry("graph.json")>>
    \o (IF art.slices THEN <<Entry("slices.jsonl")>> ELSE <<>>)
    \o (IF art.pointers THEN <<Entry("pointers.jsonl")>> ELSE <<>>)

\* ---- writeSourcesIfEnabled (zipdelta.go:427): entries src/<rel>, sorted ----
writeSourcesIfEnabled(files, emit) ==
    IF ~emit \/ Len(files) = 0 THEN <<>>
    ELSE LET sorted == SortRelPaths(files)
         IN  [i \in 1..Len(sorted) |->
                 [name |-> "src", path |-> SanitizePath(<<"s", "r", "c", "/">> \o sorted[i], "linux")]]

\* WriteFull (zipdelta.go:315)
WriteCoreJson ==
    /\ fpc = "core"
    /\ archive' = archive \o writeCoreJson(fullIn)
    /\ fpc' = "readme"
    /\ UNCHANGED fullIn
    /\ UNCHANGED nonFullVars

\* WriteFull (zipdelta.go:333): writeReadmeFull
WriteReadmeFull ==
    /\ fpc = "readme"
    /\ archive' = Append(archive, Entry("README.md"))
    /\ fpc' = "toc"
    /\ UNCHANGED fullIn
    /\ UNCHANGED nonFullVars

\* WriteFull (zipdelta.go:336): writeToc
WriteToc ==
    /\ fpc = "toc"
    /\ archive' = Append(archive, Entry("TOC.md"))
    /\ fpc' = "src"
    /\ UNCHANGED fullIn
    /\ UNCHANGED nonFullVars

\* WriteFull (zipdelta.go:339): writeSourcesIfEnabled; reading a source file
\* may fail after k entries have been written
WriteSources(k) ==
    /\ fpc = "src"
    /\ LET out == writeSourcesIfEnabled(fullIn.files, fullIn.emitSrc)
       IN  /\ k <= Len(out)
           /\ archive' = archive \o SubSeq(out, 1, k)
           /\ fpc' = IF k = Len(out) THEN "bench" ELSE "failed"
    /\ UNCHANGED fullIn
    /\ UNCHANGED nonFullVars

\* WriteFull (zipdelta.go:342): writeBenchIfPresent
WriteBench(ok) ==
    /\ fpc = "bench"
    /\ IF ~fullIn.bench THEN archive' = archive /\ fpc' = "done"
       ELSE IF ok THEN archive' = Append(archive, Entry("bench.txt")) /\ fpc' = "done"
       ELSE archive' = archive /\ fpc' = "failed"
    /\ UNCHANGED fullIn
    /\ UNCHANGED nonFullVars

InitFull ==
    /\ fullIn \in FullInputs
    /\ archive = <<>>
    /\ fpc = "core"
    /\ DeltaIdle
    /\ IndexIdle
    /\ PathIdle
    /\ CacheIdle
    /\ MainIdle
    /\ BundleIdle
    /\ ChatIdle
    /\ SliceIdle
    /\ AutoIdle
    /\ GatherIdle
    /\ DiffsIdle
    /\ RenameIdle
    /\ AnchorIdle
    /\ UniqIdle
    /\ FollowIdle

NextFull ==
    \/ WriteCoreJson
    \/ WriteReadmeFull
    \/ WriteToc
    \/ \E k \in 0..Cardinality(RelPaths) : WriteSources(k)
    \/ \E ok \in BOOLEAN : WriteBench(ok)

SpecFull == InitFull /\ [][NextFull]_vars

\* the place of an entry in the documented FULL layout
LayoutRank(e) ==
    CASE e.name = "manifest.json"  -> 1
      [] e.name = "symbols.json"   -> 2
      [] e.name = "BUNDLE.ID"      -> 3
      [] e.name = "graph.json"     -> 4
      [] e.name = "slices.jsonl"   -> 5
      [] e.name = "pointers.jsonl" -> 6
      [] e.name = "README.md"      -> 7
      [] e.name = "TOC.md"         -> 8
      [] e.name = "bench.txt"      -> 9
      [] OTHER                     -> 10

\* C13: WriteFull emits manifest.json, symbols.json, BUNDLE.ID, graph.json,
\* slices.jsonl, pointers.jsonl, README.md, TOC.md, bench.txt and then the
\* src/ entries in ascending path order; bench.txt precedes every src/ entry.
C13_FullLayoutOrder ==
    \A i, j \in 1..Len(archive) :
        i < j => LexLess(<<LayoutRank(archive[i])>> \o Codes(archive[i].path),
                         <<LayoutRank(archive[j])>> \o Codes(archive[j].path))

-----------------------------------------------------------------------------
(* internal/index: BuildSlices                                             *)

MaxTotal == 7          \* largest file length in lines
MaxAnchorLine == 3     \* largest anchor start / end handed in
MaxSliceAnchors == 2   \* anchors handed to BuildSlices
MaxChunk == 3          \* largest maxFileLines

SliceAnchorNames == { <<"a">>, <<"b">> }

\* anchors as a caller may hand them in: any start and end, any order
RawAnchors ==
    [Name : SliceAnchorNames, Start : 0..MaxAnchorLine, End : 0..MaxAnchorLine]

SliceInputs ==
    [anchors : SeqsUpTo(RawAnchors, MaxSliceAnchors),
     totalLines : 0..MaxTotal,
     maxFileLines : -1..MaxChunk]

\* ---- normalizeAnchorsForSlices (part_008:90) ----
normalizeAnchorsForSlices(in, total) ==
    IF Len(in) = 0 THEN <<>>
    ELSE LET clamp(a) ==
                 LET start == IF a.Start < 1 THEN 1 ELSE a.Start
                     end0  == IF a.End < start THEN start ELSE a.End
                     end   == IF end0 > total THEN total ELSE end0
                 IN  [Name |-> a.Name, Start |-> start, End |-> end]
             out == SortAnchors([i \in 1..Len(in) |-> clamp(in[i])])
             keep == SelectSeq([i \in 1..Len(out) |-> i],
                               LAMBDA k : k = 1 \/ out[k] # out[k - 1])
         IN  IF Len(out) <= 1 THEN out ELSE [k \in 1..Len(keep) |-> out[keep[k]]]

\* fmt.Sprintf("chunk_%d", s)
ChunkName(s) == <<"c", "h", "u", "n", "k", "_">> \o Itoa(s)

\* a chunk end that runs one line into the next chunk
chunkEndOverlap(s, maxFileLines, totalLines) ==
    IF s + maxFileLines > totalLines THEN totalLines ELSE s + maxFileLines

\* BuildSlices (part_008:77-80): e := s + maxFileLines - 1, capped
chunkEnd(s, maxFileLines, totalLines) ==
    IF s + maxFileLines - 1 > totalLines THEN totalLines ELSE s + maxFileLines - 1

\* BuildSlices (part_008:76-86): the chunk loop from start line s
RECURSIVE ChunkLoop(_, _, _, _)
ChunkLoop(relPath, s, maxFileLines, totalLines) ==
    IF s > totalLines THEN <<>>
    ELSE <<[Path |-> relPath, Slice |-> ChunkName(s), Start |-> s,
            End |-> chunkEnd(s, maxFileLines, totalLines)]>>
         \o ChunkLoop(relPath, s + maxFileLines, maxFileLines, totalLines)

\* ---- BuildSlices (part_008:33) ----
BuildSlices(relPath, anchors, totalLines0, maxFileLines) ==
    LET totalLines == IF totalLines0 < 1 THEN 1 ELSE totalLines0
    IN  IF Len(anchors) > 0
        THEN LET na == normalizeAnchorsForSlices(anchors, totalLines)
             IN  [i \in 1..Len(na) |->
                     [Path |-> relPath, Slice |-> na[i].Name,
                      Start |-> na[i].Start, End |-> na[i].End]]
        ELSE IF maxFileLines <= 0
        THEN <<[Path |-> relPath, Slice |-> ChunkName(1), Start |-> 1, End |-> totalLines]>>
        ELSE IF totalLines <= maxFileLines THEN <<>>
        ELSE ChunkLoop(relPath, 1, maxFileLines, totalLines)

\* processFile (manifest.go:206): BuildSlices(f.RelPath, anchors, totalLines, maxFileLines)
CallBuildSlices ==
    /\ slpc = "call"
    /\ slices' = BuildSlices(<<"a">>, slIn.anchors, slIn.totalLines, slIn.maxFileLines)
    /\ slpc' = "done"
    /\ UNCHANGED slIn
    /\ UNCHANGED nonSliceVars

InitSlice ==
    /\ slIn \in SliceInputs
    /\ slices = <<>>
    /\ slpc = "call"
    /\ DeltaIdle
    /\ IndexIdle
    /\ PathIdle
    /\ CacheIdle
    /\ MainIdle
    /\ BundleIdle
    /\ ChatIdle
    /\ FullIdle
    /\ AutoIdle
    /\ GatherIdle
    /\ DiffsIdle
    /\ RenameIdle
    /\ AnchorIdle
    /\ UniqIdle
    /\ FollowIdle

NextSlice == CallBuildSlices

SpecSlice == InitSlice /\ [][NextSlice]_vars

\* C14: every slice BuildSlices emits satisfies 1 <= start <= end <= fileLines,
\* for any input anchors and any fileLines >= 1.
C14_SliceRangeValid ==
    (slpc = "done" /\ slIn.totalLines >= 1) =>
        \A i \in 1..Len(slices) :
            /\ 1 <= slices[i].Start
            /\ slices[i].Start <= slices[i].End
            /\ slices[i].End <= slIn.totalLines

\* C18: with no anchors, maxFileLines = m > 0 and fileLines = n > m the
\* slices start at 1, each starts right after the previous one ends, each is
\* m lines wide except possibly the last, the last ends at n, and each is
\* named chunk_<its start line>.
C18_ChunksCoverFile ==
    (slpc = "done" /\ Len(slIn.anchors) = 0 /\ slIn.maxFileLines > 0
        /\ slIn.totalLines > slIn.maxFileLines) =>
        /\ Len(slices) >= 1
        /\ slices[1].Start = 1
        /\ slices[Len(slices)].End = slIn.totalLines
        /\ \A i \in 1..Len(slices) :
              /\ slices[i].Slice = ChunkName(slices[i].Start)
              /\ slices[i].Start <= slices[i].End
              /\ slices[i].Start = 1 + (i - 1) * slIn.maxFileLines
              /\ i < Len(slices) => /\ slices[i].End - slices[i].Start + 1 = slIn.maxFileLines
                                    /\ slices[i + 1].Start = slices[i].End + 1
              /\ slices[i].End - slices[i].Start + 1 <= slIn.maxFileLines

\* a file of 7 lines cut into chunks of 3: chunk_1, chunk_4 and a short chunk_7
C18_Witness ==
    /\ slpc = "done"
    /\ Len(slIn.anchors) = 0
    /\ slIn.maxFileLines = 3
    /\ slIn.totalLines = 7
    /\ Len(slices) = 3
    /\ slices[3].Slice = <<"c", "h", "u", "n", "k", "_", "7">>


-----------------------------------------------------------------------------
(* internal/index: BuildAutoAnchors                                        *)

MaxAutoLine == 3   \* lines of the file
MaxHeur == 2       \* anchors the import, test and region heuristics find
MaxCap == 2        \* largest MaxPerFile

\* The configurations the command line can set.
AutoAnchorConfigs ==
    [Enabled : BOOLEAN, MinLines : {0, 2}, MaxPerFile : 0..MaxCap, Prefix : {<<"a", ":">>}]

AutoRanges == {r \in (1..MaxAutoLine) \X (1..MaxAutoLine) : r[1] <= r[2]}

\* What importAnchor, testAnchors and the coarse patterns find in the data,
\* in the order steps 2 to 4 visit them, names still without prefix.
HeurAnchors ==
    {[Name |-> n, Start |-> r[1], End |-> r[2]] :
        n \in {<<"T", "E", "S", "T">>, <<"I", "M", "P", "O", "R", "T", "S">>}, r \in AutoRanges}

\* The symbols of the file, End finalized by processFile.
AutoSymbols ==
    {<<>>} \cup {<<[Symbol |-> <<"p", ".", "f">>, Kind |-> "func", Path |-> <<"a">>,
                    Start |-> l, End |-> MaxAutoLine]>> : l \in 1..2}

\* The explicit anchors of the file.
ExplicitAnchors ==
    {<<>>, <<[Name |-> <<"a", ":", "T", "E", "S", "T">>, Start |-> 1, End |-> 1]>>}

AutoInputs ==
    [syms : AutoSymbols, heur : SeqsUpTo(HeurAnchors, MaxHeur), existing : ExplicitAnchors,
     totalLines : {MaxAutoLine}]

\* ---- symbolAnchorName (autoanchors.go:150) ----
symbolAnchorName(sym) ==
    LET parts == Split(sym.Symbol, ".")
        n     == Len(parts)
    IN  IF n >= 2 THEN <<"S", "Y", "M", ":">> \o parts[n - 1] \o <<".">> \o parts[n]
        ELSE <<"S", "Y", "M", ":">> \o sym.Symbol

\* ---- BuildAutoAnchors (autoanchors.go:45-135): the candidates of steps 1 to 4 ----
autoCandidates(syms, heur) ==
    LET minLines == IF autoCfg.MinLines < 1 THEN 1 ELSE autoCfg.MinLines
        symLoop[i \in 0..Len(syms)] ==
            IF i = 0 THEN <<>>
            ELSE LET sy    == syms[i]
                     start == IF sy.Start < 1 THEN 1 ELSE sy.Start
                     end   == IF sy.End < start THEN start ELSE sy.End
                 IN  IF (end - start + 1) < minLines THEN symLoop[i - 1]
                     ELSE Append(symLoop[i - 1],
                              [Name |-> autoCfg.Prefix \o symbolAnchorName(sy),
                               Start |-> start, End |-> end])
        heurLoop[i \in 0..Len(heur)] ==
            IF i = 0 THEN symLoop[Len(syms)]
            ELSE IF (heur[i].End - heur[i].Start + 1) >= minLines
                 THEN Append(heurLoop[i - 1], [heur[i] EXCEPT !.Name = autoCfg.Prefix \o heur[i].Name])
                 ELSE heurLoop[i - 1]
    IN  heurLoop[Len(heur)]

\* the clamp of normalizeAutoAnchors (autoanchors.go:271-281)
clampAnchor(a, total) ==
    LET start == IF a.Start < 1 THEN 1 ELSE a.Start
        end0  == IF a.End < start THEN start ELSE a.End
        end   == IF end0 > total THEN total ELSE end0
    IN  [Name |-> a.Name, Start |-> start, End |-> end]

\* ---- normalizeAutoAnchors (autoanchors.go:266) ----
normalizeAutoAnchors(in, explicit, total) ==
    IF Len(in) = 0 THEN <<>>
    ELSE LET clamped == [i \in 1..Len(in) |-> clampAnchor(in[i], total)]
             sorted  == SortAnchors(clamped)
             uniq    == SelectSeq([i \in 1..Len(sorted) |-> [k |-> i, a |-> sorted[i]]],
                                  LAMBDA e : e.k = 1 \/ e.a # sorted[e.k - 1])
             in2     == [i \in 1..Len(uniq) |-> uniq[i].a]
             exp     == Range(explicit)
         IN  IF Len(explicit) > 0 THEN SelectSeq(in2, LAMBDA a : a \notin exp) ELSE in2

\* the cap taken before the normalization
BuildAutoAnchorsCapFirst(syms, heur, existing, totalLines) ==
    IF ~autoCfg.Enabled \/ totalLines < 1 THEN <<>>
    ELSE LET cands == autoCandidates(syms, heur)
             cut   == IF autoCfg.MaxPerFile > 0 /\ Len(cands) > autoCfg.MaxPerFile
                      THEN SubSeq(cands, 1, autoCfg.MaxPerFile) ELSE cands
         IN  normalizeAutoAnchors(cut, existing, totalLines)

\* ---- BuildAutoAnchors (autoanchors.go:41) ----
BuildAutoAnchors(syms, heur, existing, totalLines) ==
    IF ~autoCfg.Enabled \/ totalLines < 1 THEN <<>>
    ELSE LET out == normalizeAutoAnchors(autoCandidates(syms, heur), existing, totalLines)
         IN  IF autoCfg.MaxPerFile > 0 /\ Len(out) > autoCfg.MaxPerFile
             THEN SubSeq(out, 1, autoCfg.MaxPerFile) ELSE out

\* ---- SetAutoAnchorsConfig (autoanchors.go:38) ----
SetAutoAnchorsConfig(c) ==
    /\ aupc = "config"
    /\ autoCfg' = c
    /\ aupc' = "build"
    /\ UNCHANGED <<auIn, autoOut>>
    /\ UNCHANGED nonAutoVars

\* ---- processFile (manifest.go:189): BuildAutoAnchors ----
CallBuildAutoAnchors ==
    /\ aupc = "build"
    /\ autoOut' = BuildAutoAnchors(auIn.syms, auIn.heur, auIn.existing, auIn.totalLines)
    /\ aupc' = "done"
    /\ UNCHANGED <<autoCfg, auIn>>
    /\ UNCHANGED nonAutoVars

InitAuto ==
    /\ autoCfg = DefaultAutoAnchorConfig
    /\ auIn \in AutoInputs
    /\ autoOut = <<>>
    /\ aupc = "config"
    /\ DeltaIdle
    /\ IndexIdle
    /\ PathIdle
    /\ CacheIdle
    /\ MainIdle
    /\ BundleIdle
    /\ ChatIdle
    /\ FullIdle
    /\ SliceIdle
    /\ GatherIdle
    /\ DiffsIdle
    /\ RenameIdle
    /\ AnchorIdle
    /\ UniqIdle
    /\ FollowIdle

NextAuto ==
    \/ \E c \in AutoAnchorConfigs : SetAutoAnchorsConfig(c)
    \/ CallBuildAutoAnchors

SpecAuto == InitAuto /\ [][NextAuto]_vars

AnchorKey(a) == <<a.Start, a.End>> \o Codes(a.Name)

\* the candidates after the clamp, without those that repeat an explicit anchor
NormalizedCandidates ==
    {clampAnchor(c, auIn.totalLines) : c \in Range(autoCandidates(auIn.syms, auIn.heur))}
        \ Range(auIn.existing)

\* C20: cap after sorting.  With MaxPerFile = N > 0 the auto anchors returned
\* are the first N of the normalized candidates in (start, end, name) order,
\* never more than N; with MaxPerFile = 0 all of them are returned.
C20_CapAfterSort ==
    (aupc = "done" /\ autoCfg.Enabled) =>
        LET N == autoCfg.MaxPerFile
            all == NormalizedCandidates
        IN  /\ \A i, j \in 1..Len(autoOut) : i < j => LexLess(AnchorKey(autoOut[i]), AnchorKey(autoOut[j]))
            /\ Range(autoOut) \subseteq all
            /\ \A a \in all \ Range(autoOut), b \in Range(autoOut) : LexLess(AnchorKey(b), AnchorKey(a))
            /\ N > 0 => Len(autoOut) = Min(N, Cardinality(all))
            /\ N = 0 => Range(autoOut) = all

\* A capped run whose candidates were not in sorted order: the first
\* candidate found is cut, a later one is kept.
C20_Witness ==
    /\ aupc = "done"
    /\ autoCfg.Enabled
    /\ autoCfg.MaxPerFile = 1
    /\ Cardinality(NormalizedCandidates) = 3
    /\ Len(autoOut) = 1
    /\ autoOut[1] # autoCandidates(auIn.syms, auIn.heur)[1]


-----------------------------------------------------------------------------
(* internal/index: gatherSymbolsIndex and processFile                      *)

GatherPaths == << <<"a">>, <<"b">> >>

GatherExts ==
    { <<".", "g", "o">>, <<".", "G", "O">>, <<"g", "o">>, <<".", "t", "x", "t">>, <<>> }

\* What the extractor of a known language reports for the file.
Extractions ==
    { [Kind |-> "file", Exports |-> <<>>, NSyms |-> 0],
      [Kind |-> "class", Exports |-> << <<"E">> >>, NSyms |-> 1] }

GatherFiles(i) ==
    [RelPath : {GatherPaths[i]}, Ext : GatherExts, Readable : BOOLEAN,
     Extracted : Extractions,
     Anchors : {<<>>, <<[Name |-> <<"x">>, Start |-> 1, End |-> 2]>>}]

GatherFileLists ==
    {<<>>} \cup {<<f>> : f \in GatherFiles(1)}
           \cup {<<f, g>> : f \in GatherFiles(1), g \in GatherFiles(2)}

\* toSet(splitCSV(-lang-hint)) (main.go:597-621): nil or a set of non-empty names
LangHintSets == { {}, {"go"}, {"java"} }

GatherInputs == [files : GatherFileLists, langHints : LangHintSets, maxFileLines : {0}]

\* strings.ToLower, for the letters of GatherExts
ToLowerExt(s) ==
    [i \in 1..Len(s) |-> CASE s[i] = "G" -> "g" [] s[i] = "O" -> "o" [] OTHER -> s[i]]

\* ---- InferLangByExt (symbols_common.go:57) ----
InferLangByExt(ext) ==
    LET e0 == TrimRightCh(TrimLeftCh(ToLowerExt(ext), " "), " ")
        e  == IF e0 # <<>> /\ e0[1] # "." THEN <<".">> \o e0 ELSE e0
    IN  IF e0 = <<>> THEN ""
        ELSE CASE e = <<".", "j", "a", "v", "a">> -> "java"
               [] e = <<".", "g", "o">> -> "go"
               [] e \in { <<".", "t", "s">>, <<".", "t", "s", "x">>, <<".", "j", "s">>,
                          <<".", "j", "s", "x">>, <<".", "m", "j", "s">>, <<".", "c", "j", "s">> } -> "ts"
               [] e = <<".", "k", "t">> -> "kt"
               [] e = <<".", "c", "s">> -> "cs"
               [] e = <<".", "p", "y">> -> "py"
               [] e \in { <<".", "c", "p", "p">>, <<".", "c", "c">>, <<".", "c", "x", "x">>,
                          <<".", "h", "p", "p">>, <<".", "h", "h">>, <<".", "h">> } -> "cpp"
               [] OTHER -> ""

\* ---- processFile (manifest.go:141): nil when the file is filtered out ----
processFile(f, maxFileLines, langHints) ==
    LET lang == InferLangByExt(f.Ext)
        known == lang # ""
        kind == IF known THEN f.Extracted.Kind ELSE "file"
        exports == IF known THEN f.Extracted.Exports ELSE <<>>
        syms0 == IF known /\ f.Extracted.NSyms = 1
                 THEN <<[Symbol |-> <<"p", ".", "f">>, Kind |-> "func", Path |-> f.RelPath,
                         Start |-> 1, End |-> 1]>>
                 ELSE <<>>
        totalLines == MaxLine
        syms == FinalizeSymbols(syms0, totalLines)
        anchors == f.Anchors \o BuildAutoAnchors(syms, <<>>, f.Anchors, totalLines)
    IN  IF langHints # {} /\ lang \notin langHints THEN [nil |-> TRUE]
        ELSE [nil |-> FALSE,
              manifest |-> [Path |-> f.RelPath, Kind |-> kind, Exports |-> exports,
                            Lines |-> totalLines, Anchors |-> anchors],
              symbols |-> syms,
              slices |-> BuildSlices(f.RelPath, anchors, totalLines, maxFileLines),
              pointers |-> BuildAnchorPointers(f.RelPath, anchors)]

\* ---- gatherSymbolsIndex (manifest.go:124-136): one turn of the loop ----
GatherFile ==
    /\ gapc = "loop"
    /\ gaDone < Len(gaIn.files)
    /\ LET f  == gaIn.files[gaDone + 1]
           fa == processFile(f, gaIn.maxFileLines, gaIn.langHints)
       IN  IF ~f.Readable \/ fa.nil
           THEN UNCHANGED <<gaManifest, gaSymbols, gaSlices, gaPointers>>
           ELSE /\ gaManifest' = Append(gaManifest, fa.manifest)
                /\ gaSymbols' = gaSymbols \o fa.symbols
                /\ gaSlices' = gaSlices \o fa.slices
                /\ gaPointers' = gaPointers \o fa.pointers
    /\ gaDone' = gaDone + 1
    /\ UNCHANGED <<gaIn, gapc>>
    /\ UNCHANGED nonGatherVars

\* ---- gatherSymbolsIndex (manifest.go:138): return idx ----
GatherReturn ==
    /\ gapc = "loop"
    /\ gaDone = Len(gaIn.files)
    /\ gapc' = "done"
    /\ UNCHANGED <<gaIn, gaManifest, gaSymbols, gaSlices, gaPointers, gaDone>>
    /\ UNCHANGED nonGatherVars

InitGather ==
    /\ gaIn \in GatherInputs
    /\ gaManifest = <<>>
    /\ gaSymbols = <<>>
    /\ gaSlices = <<>>
    /\ gaPointers = <<>>
    /\ gaDone = 0
    /\ gapc = "loop"
    /\ DeltaIdle
    /\ IndexIdle
    /\ PathIdle
    /\ CacheIdle
    /\ MainIdle
    /\ BundleIdle
    /\ ChatIdle
    /\ FullIdle
    /\ SliceIdle
    /\ AutoIdle
    /\ DiffsIdle
    /\ RenameIdle
    /\ AnchorIdle
    /\ UniqIdle
    /\ FollowIdle

NextGather == GatherFile \/ GatherReturn

SpecGather == InitGather /\ [][NextGather]_vars

\* C16: unknown language.  Every readable file whose extension maps to no
\* known language is in manifest.files with kind = file and no exports, and
\* no symbol belongs to it; such a file is never dropped.
C16_UnknownLangKept ==
    gapc = "done" =>
        \A i \in 1..Len(gaIn.files) :
            LET f == gaIn.files[i]
            IN  (f.Readable /\ InferLangByExt(f.Ext) = "") =>
                    /\ \E k \in 1..Len(gaManifest) :
                          /\ gaManifest[k].Path = f.RelPath
                          /\ gaManifest[k].Kind = "file"
                          /\ gaManifest[k].Exports = <<>>
                    /\ \A k \in 1..Len(gaSymbols) : gaSymbols[k].Path # f.RelPath


-----------------------------------------------------------------------------
(* internal/bundle: MakeDiffs and uniquePatchName                          *)

MaxChanged == 4    \* changed entries of a delta

DiffChangedPaths ==
    { <<"a", "/", "b">>, <<"a", "_", "b">>, <<".", "a", "_", "b">>, <<"_", "a", "_", "b">>, <<"c">> }

\* after-hashes: empty, and two that share their first 8 characters
AfterHashes ==
    { <<>>,
      <<"a", "a", "a", "a", "a", "a", "a", "a", "1">>,
      <<"a", "a", "a", "a", "a", "a", "a", "a", "2">> }

\* d.Changed: distinct paths in ascending order (delta.go:323), each with its after-hash
ChangedLists ==
    UNION { LET ps == SortStrings(SetToSeq(P))
            IN  {[i \in 1..Len(ps) |-> [Path |-> ps[i], HashAfter |-> hs[i], DiffPath |-> <<>>, Oversize |-> FALSE]] :
                    hs \in [1..Len(ps) -> AfterHashes]}
          : P \in {Q \in SUBSET DiffChangedPaths : Cardinality(Q) <= MaxChanged} }

\* the characters invalidFileCharsRe matches (zipfull.go:228)
InvalidFileChars == {"\\", ":", "*", "?", "\"", "<", ">", "|"}

RECURSIVE TrimLeftSet(_, _)
TrimLeftSet(s, cut) == IF Len(s) > 0 /\ Head(s) \in cut THEN TrimLeftSet(Tail(s), cut) ELSE s

\* ---- safeDiffBase (zipfull.go:232) ----
safeDiffBase(p) ==
    LET slashed == ReplaceAll(ReplaceAll(p, "\\", "/"), "/", "_")
        cleaned == [i \in 1..Len(slashed) |-> IF slashed[i] \in InvalidFileChars THEN "_" ELSE slashed[i]]
        base    == TrimLeftSet(cleaned, {".", "_"})
    IN  IF base = <<>> THEN <<"p", "a", "t", "c", "h">> ELSE base

\* ---- shortHash (zipfull.go:246): a collision-free digest, marked with # ----
shortHash(s) == <<"#">> \o s

DotPatch == <<".", "p", "a", "t", "c", "h">>

\* the third name, handed out without a look at the used names
thirdPatchName(base, suffix) == base \o <<"-">> \o suffix \o <<"-">> \o shortHash(base \o suffix) \o DotPatch

\* ---- uniquePatchName (zipfull.go:254): the name; the caller adds it to used ----
uniquePatchName(base, hashHint, used) ==
    LET suffix == IF hashHint = <<>> THEN shortHash(base) ELSE hashHint
    IN  IF base \o DotPatch \notin used THEN base \o DotPatch
        ELSE IF base \o <<"-">> \o suffix \o DotPatch \notin used
             THEN base \o <<"-">> \o suffix \o DotPatch
        ELSE thirdPatchName(base, suffix)

\* ---- summarizePatch (zipfull.go:365) ----
summarizePatch(patchName, oversize) ==
    [diffPath |-> <<"d", "i", "f", "f", "s", "/">> \o patchName, oversize |-> oversize]

\* ---- MakeDiffs (zipfull.go:298-326): one turn of the loop ----
MakeDiffStep(oversize) ==
    /\ mdpc = "loop"
    /\ Len(patches) < Len(mdChanged)
    /\ LET i         == Len(patches) + 1
           chg       == mdChanged[i]
           base      == safeDiffBase(chg.Path)
           hashHint  == IF chg.HashAfter = <<>> THEN shortHash(chg.Path) ELSE chg.HashAfter
           patchName == uniquePatchName(base, SubSeq(hashHint, 1, Min(Len(hashHint), 8)), usedNames)
           summary   == summarizePatch(patchName, oversize)
       IN  /\ usedNames' = usedNames \cup {patchName}
           /\ patches' = Append(patches, [name |-> patchName, body |-> chg.Path, oversize |-> oversize])
           /\ mdChanged' = [mdChanged EXCEPT ![i].Oversize = summary.oversize,
                                             ![i].DiffPath = summary.diffPath]
    /\ UNCHANGED <<mdIn, mdOut, mdpc>>
    /\ UNCHANGED nonDiffsVars

\* ---- MakeDiffs (zipfull.go:328-334): sortAndPackage, fill the map ----
\* sorted is any order sort.Slice can leave the patches in.
MakeDiffsReturn ==
    /\ mdpc = "loop"
    /\ Len(patches) = Len(mdChanged)
    /\ \E sorted \in Perms(patches) :
          /\ \A i, j \in 1..Len(sorted) : i < j => ~LexLess(Codes(sorted[j].name), Codes(sorted[i].name))
          /\ LET fill[i \in 0..Len(sorted)] ==
                     IF i = 0 THEN EmptyMap ELSE MapPut(fill[i - 1], sorted[i].name, sorted[i].body)
             IN  mdOut' = fill[Len(sorted)]
    /\ mdpc' = "done"
    /\ UNCHANGED <<mdIn, mdChanged, usedNames, patches>>
    /\ UNCHANGED nonDiffsVars

InitDiffs ==
    /\ mdIn \in ChangedLists
    /\ mdChanged = mdIn
    /\ usedNames = {}
    /\ patches = <<>>
    /\ mdOut = EmptyMap
    /\ mdpc = "loop"
    /\ DeltaIdle
    /\ IndexIdle
    /\ PathIdle
    /\ CacheIdle
    /\ MainIdle
    /\ BundleIdle
    /\ ChatIdle
    /\ FullIdle
    /\ SliceIdle
    /\ AutoIdle
    /\ GatherIdle
    /\ RenameIdle
    /\ AnchorIdle
    /\ UniqIdle
    /\ FollowIdle

NextDiffs ==
    \/ \E oversize \in BOOLEAN : MakeDiffStep(oversize)
    \/ MakeDiffsReturn

SpecDiffs == InitDiffs /\ [][NextDiffs]_vars

\* C17: unique patch names.  After MakeDiffs the changed entries carry
\* pairwise distinct DiffPath values and the returned map holds one patch
\* per changed entry.
C17_UniqueDiffPaths ==
    mdpc = "done" =>
        /\ \A i, j \in 1..Len(mdChanged) : i # j => mdChanged[i].DiffPath # mdChanged[j].DiffPath
        /\ Cardinality(DOMAIN mdOut) = Len(mdChanged)


-----------------------------------------------------------------------------
(* internal/cache: the rename passes of BuildDelta                         *)

MaxRnPaths == 4    \* paths that are removed or added

\* What a path is: 0 absent, h in 1..NHashes removed with hash h,
\* NHashes + h added with hash h.
RnRoles == 0..(2 * NHashes)

RnRemovedOf(f) == {SnapFile(p, f[p]) : p \in {q \in 1..MaxRnPaths : f[q] \in 1..NHashes}}

RnAddedOf(f) == {SnapFile(p, f[p] - NHashes) : p \in {q \in 1..MaxRnPaths : f[q] > NHashes}}

\* removed and added as the two classify loops leave them: disjoint paths,
\* each list in the order the map was visited
RenameInputs ==
    UNION {Perms(SetToSeq(RnRemovedOf(f))) \X Perms(SetToSeq(RnAddedOf(f))) :
              f \in [1..MaxRnPaths -> RnRoles]}

\* SetRenameSimilarity / SetContentProvider as the caller left them:
\* <<enableSimRename, simThresh, contentProvider>>
RenameConfigs ==
    {<<FALSE, DefaultSimThresh, "none">>, <<TRUE, DefaultSimThresh, "none">>,
     <<TRUE, 1, "ok">>, <<TRUE, DefaultSimThresh, "ok">>, <<TRUE, 1, "oldmissing">>}

\* ---- BuildDelta (delta.go:52-55): matchExactRenames ----
ExactPass ==
    /\ rnpc = "exact"
    /\ rnExact' = matchExactRenames(rnRemoved, rnAdded)
    /\ rnpc' = "sim"
    /\ UNCHANGED <<rnRemoved, rnAdded, rnScored, rnPick, rnDelta>>
    /\ UNCHANGED nonRenameVars

\* the delta BuildDelta holds after the exact pass
AfterExact ==
    [Removed |-> rnExact.removed, Added |-> rnExact.added, Changed |-> <<>>,
     Renamed |-> rnExact.renamed]

\* ---- BuildDelta (delta.go:57-62): applySimilarityRenames, sortDelta ----
SimilarityPass ==
    /\ rnpc = "sim"
    /\ enableSimRename
    /\ LET d      == AfterExact
           ran    == Len(d.Removed) > 0 /\ Len(d.Added) > 0 /\ contentProvider # "none"
           scored == IF ran
                     THEN scoreRenameCandidates(d, collectRenameCandidates(d), contentProvider, simThresh)
                     ELSE <<>>
       IN  /\ rnScored' = scored
           /\ rnPick' = pickScoredRenames(d, scored)
           /\ rnDelta' = sortDelta(applySimilarityRenames(d, contentProvider, simThresh))
    /\ rnpc' = "done"
    /\ UNCHANGED <<rnRemoved, rnAdded, rnExact>>
    /\ UNCHANGED nonRenameVars

\* ---- BuildDelta (delta.go:57-62): similarity off, sortDelta ----
SkipSimilarity ==
    /\ rnpc = "sim"
    /\ ~enableSimRename
    /\ rnDelta' = sortDelta(AfterExact)
    /\ rnpc' = "done"
    /\ UNCHANGED <<rnRemoved, rnAdded, rnExact, rnScored, rnPick>>
    /\ UNCHANGED nonRenameVars

InitRename ==
    /\ \E in \in RenameInputs : rnRemoved = in[1] /\ rnAdded = in[2]
    /\ rnExact = <<>>
    /\ rnScored = <<>>
    /\ rnPick = [renames |-> <<>>, usedRemoved |-> {}, usedAdded |-> {}]
    /\ rnDelta = <<>>
    /\ rnpc = "exact"
    /\ prev = NilSnapshot
    /\ curr = NilSnapshot
    /\ \E cfg \in RenameConfigs :
          /\ enableSimRename = cfg[1]
          /\ simThresh = cfg[2]
          /\ contentProvider = cfg[3]
    /\ dpc = "idle"
    /\ delta = EmptyDelta
    /\ delta2 = EmptyDelta
    /\ IndexIdle
    /\ PathIdle
    /\ CacheIdle
    /\ MainIdle
    /\ BundleIdle
    /\ ChatIdle
    /\ FullIdle
    /\ SliceIdle
    /\ AutoIdle
    /\ GatherIdle
    /\ DiffsIdle
    /\ AnchorIdle
    /\ UniqIdle
    /\ FollowIdle

NextRename == ExactPass \/ SimilarityPass \/ SkipSimilarity

SpecRename == InitRename /\ [][NextRename]_vars

ExactDone == rnpc \in {"sim", "done"}

RemovedWith(h) == {rnRemoved[i].Path : i \in {j \in 1..Len(rnRemoved) : rnRemoved[j].Hash = h}}

AddedWith(h) == {rnAdded[i].Path : i \in {j \in 1..Len(rnAdded) : rnAdded[j].Hash = h}}

\* the k-th smallest element of a set of paths
Kth(S, k) == CHOOSE x \in S : Cardinality({y \in S : y < x}) = k - 1

\* C21: exact renames pair one-to-one.  Every removed path is the from of
\* at most one rename and every added path the to of at most one, both sides
\* of a rename carry the rename's hash, and for each hash the k-th added file
\* (ascending path) is paired with the k-th removed file (ascending path) as
\* long as both exist.
C21_ExactPairing ==
    ExactDone =>
        LET R == rnExact.renamed
        IN  /\ \A i, j \in 1..Len(R) : i # j => (R[i].From # R[j].From /\ R[i].To # R[j].To)
            /\ \A i \in 1..Len(R) :
                  /\ R[i].From \in RemovedWith(R[i].Hash)
                  /\ R[i].To \in AddedWith(R[i].Hash)
            /\ \A h \in Hashes :
                  \A k \in 1..Min(Cardinality(RemovedWith(h)), Cardinality(AddedWith(h))) :
                      \E i \in 1..Len(R) :
                          R[i] = [From |-> Kth(RemovedWith(h), k), To |-> Kth(AddedWith(h), k), Hash |-> h]

\* Two removed and two added files of one hash, handed over in descending
\* path order, both pairs renamed.
C21_Witness ==
    /\ ExactDone
    /\ Len(rnExact.renamed) = 2
    /\ rnExact.renamed[1].Hash = rnExact.renamed[2].Hash
    /\ Len(rnRemoved) = 2 /\ rnRemoved[1].Path > rnRemoved[2].Path
    /\ Len(rnAdded) = 2 /\ rnAdded[1].Path > rnAdded[2].Path

\* C28: exact pass exhausts one side per hash.  After the exact-rename pass
\* no file left in removed has the hash of a file left in added, and no pair
\* the similarity pass keeps has equal hashes.
C28_NoEqualHashLeft ==
    ExactDone =>
        /\ \A i \in 1..Len(rnExact.removed), j \in 1..Len(rnExact.added) :
              rnExact.removed[i].Hash # rnExact.added[j].Hash
        /\ \A k \in 1..Len(rnScored) :
              rnExact.removed[rnScored[k].removedIdx].Hash # rnExact.added[rnScored[k].addedIdx].Hash

\* A hash with two removed files and one added file: one rename, one file of
\* that hash left in removed, and the similarity pass run on what is left.
C28_Witness ==
    /\ rnpc = "done"
    /\ enableSimRename
    /\ contentProvider = "ok"
    /\ Len(rnExact.renamed) = 1
    /\ \E i \in 1..Len(rnExact.removed) : rnExact.removed[i].Hash = rnExact.renamed[1].Hash
    /\ Len(rnExact.added) >= 1

\* the Hamming distance of a removed file and an added file left by the exact pass
PairDist(i, j) ==
    hamming64(simHash64(rnExact.removed[i].Hash), simHash64(rnExact.added[j].Hash))

\* the pairs the similarity pass keeps: candidates by hash and line count,
\* both contents readable, distance within the threshold
KeptPairs ==
    {pr \in (1..Len(rnExact.removed)) \X (1..Len(rnExact.added)) :
        LET rf == rnExact.removed[pr[1]]
            af == rnExact.added[pr[2]]
        IN  /\ rf.Hash # af.Hash
            /\ \/ rf.Lines = 0
               \/ af.Lines = 0
               \/ (rf.Lines <= 2 * af.Lines /\ af.Lines <= 2 * rf.Lines)
            /\ contentProvider = "ok"
            /\ PairDist(pr[1], pr[2]) <= simThresh}

\* (toPath asc, distance asc, fromPath asc)
PairKey(pr) == <<rnExact.added[pr[2]].Path, PairDist(pr[1], pr[2]), rnExact.removed[pr[1]].Path>>

\* the pairs the similarity pass promoted, as index pairs
PromotedPairs ==
    {pr \in (1..Len(rnExact.removed)) \X (1..Len(rnExact.added)) :
        \E k \in 1..Len(rnPick.renames) :
            /\ rnPick.renames[k].From = rnExact.removed[pr[1]].Path
            /\ rnPick.renames[k].To = rnExact.added[pr[2]].Path}

-----------------------------------------------------------------------------
(* internal/index: parseAnchorsFromFile, region markers                    *)

MaxItems == 4    \* marker and text items in one file
MaxMixed == 3    \* items in a file that has line and block markers

RegionNames == {"A", "B"}

\* What the file is made of.  A line marker fills a line of its own
\* (reLineC and reHash are anchored with ^ and $); a block marker sits
\* anywhere, followed by a line break ("after"), holding one inside
\* (reBlock lets \s match it) or neither ("none"); text is the rest of a
\* line without any marker, line break included.
LineItems ==
    [t : {"line"}, form : {"//", "#"}, kind : {"region", "endregion"}, name : RegionNames, brk : {"after"}]

\* (a line break inside a region marker moves the lines as one after it does:
\* only the marker's start is read)
BlockItems ==
    [t : {"block"}, form : {"/*"}, kind : {"region"}, name : RegionNames, brk : {"none", "after"}]
        \cup [t : {"block"}, form : {"/*"}, kind : {"endregion"}, name : RegionNames,
              brk : {"none", "after", "inside"}]

TextItem == [t |-> "text", form |-> "", kind |-> "", name |-> "", brk |-> "after"]

AnchorItems == LineItems \cup BlockItems \cup {TextItem}

\* a line marker starts its line
WellFormedData(d) ==
    \A i \in 2..Len(d) : d[i].t = "line" => d[i - 1].brk = "after"

\* Files of up to MaxItems items in one marker style, and of up to MaxMixed
\* items with both styles.
AnchorInputs ==
    {d \in SeqsUpTo(LineItems \cup {TextItem}, MaxItems)
            \cup SeqsUpTo(BlockItems \cup {TextItem}, MaxItems)
            \cup SeqsUpTo(AnchorItems, MaxMixed) : WellFormedData(d)}

\* "\n" bytes in data[:off], off the start of item i
NewlinesBefore(d, i) == Cardinality({j \in 1..(i - 1) : d[j].brk # "none"})

\* 1 + bytes.Count(data[:m[0]], "\n")
StartLineOf(d, i) == 1 + NewlinesBefore(d, i)

\* 1 + bytes.Count(data[:m[1]], "\n"), m[1] the end of the marker
EndLineOf(d, i) == 1 + NewlinesBefore(d, i) + (IF d[i].brk = "inside" THEN 1 ELSE 0)

\* ---- matchLineMarker (part_007:135) ----
matchLineMarker(b) ==
    IF b.t = "line" /\ b.form \in {"//", "#"}
    THEN [kind |-> b.kind, name |-> b.name, ok |-> TRUE]
    ELSE [kind |-> "", name |-> "", ok |-> FALSE]

\* mutant of lineEndregion: closes the oldest open of the name
lineEndregionFifo(starts, as, name, ln) ==
    LET stack == starts[name]
        n     == Len(stack)
    IN  IF n > 0
        THEN [starts  |-> [starts EXCEPT ![name] = Tail(stack)],
              anchors |-> IF stack[1] <= ln
                          THEN Append(as, [Name |-> name, Start |-> stack[1], End |-> ln])
                          ELSE as]
        ELSE [starts |-> starts, anchors |-> as]

\* ---- parseAnchorsFromFile (part_007:89-97): case "endregion" ----
lineEndregion(starts, as, name, ln) ==
    LET stack == starts[name]
        n     == Len(stack)
    IN  IF n > 0
        THEN [starts  |-> [starts EXCEPT ![name] = SubSeq(stack, 1, n - 1)],
              anchors |-> IF stack[n] <= ln
                          THEN Append(as, [Name |-> name, Start |-> stack[n], End |-> ln])
                          ELSE as]
        ELSE [starts |-> starts, anchors |-> as]

\* ---- parseAnchorsFromFile (part_007:79-100): the loop over the lines ----
RECURSIVE scanLines(_, _, _, _)
scanLines(d, i, starts, as) ==
    IF i > Len(d) THEN [starts |-> starts, anchors |-> as]
    ELSE LET m  == matchLineMarker(d[i])
             ln == StartLineOf(d, i)
         IN  IF ~m.ok THEN scanLines(d, i + 1, starts, as)
             ELSE IF m.kind = "region"
             THEN scanLines(d, i + 1, [starts EXCEPT ![m.name] = Append(@, ln)], as)
             ELSE LET r == lineEndregion(starts, as, m.name, ln)
                  IN  scanLines(d, i + 1, r.starts, r.anchors)

\* the largest j with os[j].name = name, 0 when there is none
LastOpen(os, name) ==
    LET js == {j \in 1..Len(os) : os[j].name = name}
    IN  IF js = {} THEN 0 ELSE CHOOSE j \in js : \A k \in js : k <= j

RemoveAt(s, j) == SubSeq(s, 1, j - 1) \o SubSeq(s, j + 1, Len(s))

\* mutant of blockEndregion: the open-list used as one stack, the close
\* pairs with the open on top whatever its name
blockEndregionTop(d, os, as, name, i) ==
    LET j == Len(os)
    IN  IF j = 0 THEN [opens |-> os, anchors |-> as]
        ELSE [opens   |-> RemoveAt(os, j),
              anchors |-> IF StartLineOf(d, os[j].off) <= EndLineOf(d, i)
                          THEN Append(as, [Name |-> name, Start |-> StartLineOf(d, os[j].off),
                                           End |-> EndLineOf(d, i)])
                          ELSE as]

\* ---- parseAnchorsFromFile (part_007:118-129): case "endregion" ----
blockEndregion(d, os, as, name, i) ==
    LET j == LastOpen(os, name)
    IN  IF j = 0 THEN [opens |-> os, anchors |-> as]
        ELSE [opens   |-> RemoveAt(os, j),
              anchors |-> IF StartLineOf(d, os[j].off) <= EndLineOf(d, i)
                          THEN Append(as, [Name |-> name, Start |-> StartLineOf(d, os[j].off),
                                           End |-> EndLineOf(d, i)])
                          ELSE as]

\* ---- parseAnchorsFromFile (part_007:107-130): the loop over reBlock's matches ----
RECURSIVE scanBlocks(_, _, _, _)
scanBlocks(d, i, os, as) ==
    IF i > Len(d) THEN [opens |-> os, anchors |-> as]
    ELSE IF d[i].t # "block" THEN scanBlocks(d, i + 1, os, as)
    ELSE IF d[i].kind = "region"
    THEN scanBlocks(d, i + 1, Append(os, [name |-> d[i].name, off |-> i]), as)
    ELSE LET r == blockEndregion(d, os, as, d[i].name, i)
         IN  scanBlocks(d, i + 1, r.opens, r.anchors)

\* ---- parseAnchorsFromFile (part_007:74-100) ----
LinePass ==
    /\ anpc = "lines"
    /\ LET r == scanLines(anData, 1, startsByName, anAnchors)
       IN  /\ startsByName' = r.starts
           /\ anAnchors' = r.anchors
    /\ anpc' = "blocks"
    /\ UNCHANGED <<anData, opens>>
    /\ UNCHANGED nonAnchorVars

\* ---- parseAnchorsFromFile (part_007:102-131) ----
BlockPass ==
    /\ anpc = "blocks"
    /\ LET r == scanBlocks(anData, 1, opens, anAnchors)
       IN  /\ opens' = r.opens
           /\ anAnchors' = r.anchors
    /\ anpc' = "done"
    /\ UNCHANGED <<anData, startsByName>>
    /\ UNCHANGED nonAnchorVars

InitAnchor ==
    /\ anData \in AnchorInputs
    /\ startsByName = [n \in RegionNames |-> <<>>]
    /\ opens = <<>>
    /\ anAnchors = <<>>
    /\ anpc = "lines"
    /\ DeltaIdle
    /\ IndexIdle
    /\ PathIdle
    /\ CacheIdle
    /\ MainIdle
    /\ BundleIdle
    /\ ChatIdle
    /\ FullIdle
    /\ SliceIdle
    /\ AutoIdle
    /\ GatherIdle
    /\ DiffsIdle
    /\ RenameIdle
    /\ UniqIdle
    /\ FollowIdle

NextAnchor == LinePass \/ BlockPass

SpecAnchor == InitAnchor /\ [][NextAnchor]_vars

\* a set of numbers as the ascending sequence
RECURSIVE SetToSortedSeq(_)
SetToSortedSeq(S) ==
    IF S = {} THEN <<>>
    ELSE LET x == CHOOSE y \in S : \A z \in S : y <= z
         IN  <<x>> \o SetToSortedSeq(S \ {x})

\* the items of type t and name n strictly between o and c
Between(t, n, o, c) == {k \in (o + 1)..(c - 1) : anData[k].t = t /\ anData[k].name = n}

\* Between o and c the markers of the name are balanced: no prefix has more
\* closes than opens, and there are as many of each.
Balanced(t, n, o, c) ==
    LET B      == Between(t, n, o, c)
        Ops(u) == Cardinality({k \in B : k <= u /\ anData[k].kind = "region"})
        Cls(u) == Cardinality({k \in B : k <= u /\ anData[k].kind = "endregion"})
    IN  /\ \A u \in B : Cls(u) <= Ops(u)
        /\ Ops(c) = Cls(c)

\* o is the most recently opened, still unclosed region of c's name
Pairs(t, o, c) ==
    /\ o < c
    /\ anData[o].t = t /\ anData[c].t = t
    /\ anData[o].kind = "region" /\ anData[c].kind = "endregion"
    /\ anData[o].name = anData[c].name
    /\ Balanced(t, anData[o].name, o, c)

\* the closes of type t that have an open, in file order
ClosesOf(t) ==
    SetToSortedSeq({c \in 1..Len(anData) : \E o \in 1..Len(anData) : Pairs(t, o, c)})

OpenOf(t, c) == CHOOSE o \in 1..Len(anData) : Pairs(t, o, c)

LinesDone == anpc \in {"blocks", "done"}

\* C22: line markers pair LIFO per name.  The anchors of the line pass are,
\* in file order of the endregion lines, exactly {NAME, openLine, closeLine}
\* for every endregion NAME whose name has a region still open, paired with
\* the most recent such region; an endregion with nothing open and a region
\* never closed emit nothing, and only never-closed regions stay on the
\* stacks.
C22_LineMarkersLifo ==
    LinesDone =>
        LET cs == ClosesOf("line")
        IN  /\ Len(anAnchors) >= Len(cs)
            /\ \A k \in 1..Len(cs) :
                  anAnchors[k] = [Name  |-> anData[cs[k]].name,
                                Start |-> StartLineOf(anData, OpenOf("line", cs[k])),
                                End   |-> StartLineOf(anData, cs[k])]
            /\ anpc = "blocks" => Len(anAnchors) = Len(cs)
            /\ \A n \in RegionNames :
                  Range(startsByName[n]) =
                      {StartLineOf(anData, o) :
                          o \in {p \in 1..Len(anData) :
                                    /\ anData[p].t = "line" /\ anData[p].kind = "region"
                                    /\ anData[p].name = n
                                    /\ ~\E c \in 1..Len(anData) : Pairs("line", p, c)}}

\* Two nested regions of one name, opened with the two marker forms: the
\* first endregion closes the inner one, the second the outer one.
C22_Witness ==
    /\ LinesDone
    /\ Len(anData) = 4
    /\ \A i \in 1..4 : anData[i].t = "line" /\ anData[i].name = "A"
    /\ anData[1].kind = "region" /\ anData[2].kind = "region"
    /\ anData[3].kind = "endregion" /\ anData[4].kind = "endregion"
    /\ anData[1].form # anData[2].form
    /\ Len(anAnchors) >= 2
    /\ anAnchors[1] = [Name |-> "A", Start |-> 2, End |-> 3]
    /\ anAnchors[2] = [Name |-> "A", Start |-> 1, End |-> 4]

\* C23: block markers pair with the nearest open of the same name.  The
\* anchors of the block pass are, in file order of the endregion markers,
\* exactly one per endregion NAME that has a region NAME still open, from
\* the line the nearest such region starts on to the line the endregion
\* ends on; opens of other names are left in the open-list, so what remains
\* there at the end is exactly the regions never closed, in file order.
C23_BlockMarkersNearestOpen ==
    anpc = "done" =>
        LET ls == ClosesOf("line")
            cs == ClosesOf("block")
        IN  /\ Len(anAnchors) = Len(ls) + Len(cs)
            /\ \A k \in 1..Len(cs) :
                  anAnchors[Len(ls) + k] =
                      [Name  |-> anData[cs[k]].name,
                       Start |-> StartLineOf(anData, OpenOf("block", cs[k])),
                       End   |-> EndLineOf(anData, cs[k])]
            /\ opens =
                  LET left == SetToSortedSeq({p \in 1..Len(anData) :
                                  /\ anData[p].t = "block" /\ anData[p].kind = "region"
                                  /\ ~\E c \in 1..Len(anData) : Pairs("block", p, c)})
                  IN  [k \in 1..Len(left) |-> [name |-> anData[left[k]].name, off |-> left[k]]]

\* A opens, B opens, A closes, B closes, each marker on a line of its own:
\* an anchor for A and an anchor for B.
C23_Witness ==
    /\ anpc = "done"
    /\ Len(anData) = 4
    /\ \A i \in 1..4 : anData[i].t = "block" /\ anData[i].brk = "after"
    /\ anData[1].kind = "region" /\ anData[1].name = "A"
    /\ anData[2].kind = "region" /\ anData[2].name = "B"
    /\ anData[3].kind = "endregion" /\ anData[3].name = "A"
    /\ anData[4].kind = "endregion" /\ anData[4].name = "B"
    /\ anAnchors = <<[Name |-> "A", Start |-> 1, End |-> 3], [Name |-> "B", Start |-> 2, End |-> 4]>>
    /\ opens = <<>>


-----------------------------------------------------------------------------
(* ziputil.EnsureUniqueName, bundle.ensureUniqueName                        *)

MaxCalls == 4    \* calls sharing one used set

UniqNames ==
    {<<"a">>, <<"a", ".", "t">>, <<"a", "-", "1">>, <<"a", "-", "1", ".", "t">>,
     <<".", "a">>, <<"a", "-", "2">>}

\* strings.LastIndex(name, "."), 0-based, -1 when there is none
LastIndexDot(name) ==
    LET is == {i \in 1..Len(name) : name[i] = "."}
    IN  IF is = {} THEN -1 ELSE (CHOOSE i \in is : \A j \in is : j <= i) - 1

\* base, ext := name[:i], name[i:] when i > 0
SplitExt(name) ==
    LET i == LastIndexDot(name)
    IN  IF i > 0 THEN [base |-> SubSeq(name, 1, i), ext |-> SubSeq(name, i + 1, Len(name))]
        ELSE [base |-> name, ext |-> <<>>]

\* ---- itoa (zipdelta.go:222) ----
itoa(n) == IF n < 10 THEN <<Digit(n)>> ELSE Itoa(n)

\* ---- EnsureUniqueName (part_006:55-61): for n := 1; ; n++ ----
RECURSIVE firstFreeAlt(_, _, _, _)
firstFreeAlt(base, ext, u, n) ==
    LET alt == base \o <<"-">> \o Itoa(n) \o ext
    IN  IF alt \notin u THEN alt ELSE firstFreeAlt(base, ext, u, n + 1)

\* ---- ensureUniqueName (zipdelta.go:212-218): for n := 1; ; n++ ----
RECURSIVE firstFreeAltItoa(_, _, _, _)
firstFreeAltItoa(base, ext, u, n) ==
    LET alt == base \o <<"-">> \o itoa(n) \o ext
    IN  IF alt \notin u THEN alt ELSE firstFreeAltItoa(base, ext, u, n + 1)

\* mutant of EnsureUniqueName: the first alternative taken unchecked
EnsureUniqueNameFirstAlt(name, u) ==
    IF name \notin u THEN [ret |-> name, used |-> u \cup {name}]
    ELSE LET alt == SplitExt(name).base \o <<"-", "1">> \o SplitExt(name).ext
         IN  [ret |-> alt, used |-> u \cup {alt}]

\* ---- EnsureUniqueName (part_006:46) ----
EnsureUniqueName(name, u) ==
    IF name \notin u THEN [ret |-> name, used |-> u \cup {name}]
    ELSE LET alt == firstFreeAlt(SplitExt(name).base, SplitExt(name).ext, u, 1)
         IN  [ret |-> alt, used |-> u \cup {alt}]

\* ---- ensureUniqueName (zipdelta.go:202) ----
ensureUniqueName(name, u) ==
    IF name \notin u THEN [ret |-> name, used |-> u \cup {name}]
    ELSE LET alt == firstFreeAltItoa(SplitExt(name).base, SplitExt(name).ext, u, 1)
         IN  [ret |-> alt, used |-> u \cup {alt}]

\* ---- one call on the shared set ----
CallEnsureUniqueName(name) ==
    /\ impl \in {"ziputil", "bundle"}
    /\ Len(uniqCalls) < MaxCalls
    /\ LET r == IF impl = "ziputil" THEN EnsureUniqueName(name, usedSet)
                ELSE ensureUniqueName(name, usedSet)
       IN  /\ usedSet' = r.used
           /\ uniqCalls' = Append(uniqCalls, [name |-> name, ret |-> r.ret,
                                              before |-> usedSet, after |-> r.used])
    /\ UNCHANGED impl
    /\ UNCHANGED nonUniqVars

InitUniq ==
    /\ usedSet \in SUBSET {<<"a">>, <<"a", "-", "1">>}
    /\ impl \in {"ziputil", "bundle"}
    /\ uniqCalls = <<>>
    /\ DeltaIdle
    /\ IndexIdle
    /\ PathIdle
    /\ CacheIdle
    /\ MainIdle
    /\ BundleIdle
    /\ ChatIdle
    /\ FullIdle
    /\ SliceIdle
    /\ AutoIdle
    /\ GatherIdle
    /\ DiffsIdle
    /\ RenameIdle
    /\ AnchorIdle
    /\ FollowIdle

NextUniq == \E name \in UniqNames : CallEnsureUniqueName(name)

SpecUniq == InitUniq /\ [][NextUniq]_vars

\* C26: names handed out over one used set are distinct.  Every returned
\* name was absent from used before its call and is in used after it and
\* ever since, the returned names are pairwise distinct, and a name not yet
\* in used is returned unchanged.
C26_UniqueNames ==
    /\ \A i \in 1..Len(uniqCalls) :
          /\ uniqCalls[i].ret \notin uniqCalls[i].before
          /\ uniqCalls[i].ret \in uniqCalls[i].after
          /\ uniqCalls[i].ret \in usedSet
          /\ uniqCalls[i].name \notin uniqCalls[i].before => uniqCalls[i].ret = uniqCalls[i].name
    /\ \A i, j \in 1..Len(uniqCalls) : i # j => uniqCalls[i].ret # uniqCalls[j].ret

\* "a" asked for while "a" and "a-1" are taken: the second alternative is
\* returned; and a later call for a fresh name returns it unchanged.
C26_Witness ==
    /\ Len(uniqCalls) >= 3
    /\ \E i \in 1..Len(uniqCalls) :
          /\ uniqCalls[i].name = <<"a">>
          /\ uniqCalls[i].ret = <<"a", "-", "2">>
          /\ \E j \in (i + 1)..Len(uniqCalls) :
                /\ uniqCalls[j].name = <<"a", ".", "t">>
                /\ uniqCalls[j].ret = <<"a", ".", "t">>


-----------------------------------------------------------------------------
(* cmd/class-collector: what a failed run leaves behind                    *)

\* the run is past selectMode, in the given mode
RunIn(mode) == args.flagsOk /\ args.nargs >= 1 /\ selectMode(args) = mode /\ steps # <<>>

Called(op) == {i \in 1..Len(steps) : steps[i].op = op}

\* the run has ended on the error of one of these calls
FailedIn(ops) ==
    /\ mpc = "exit"
    /\ steps # <<>>
    /\ ~steps[Len(steps)].ok
    /\ steps[Len(steps)].op \in ops

\* cache.Save comes after a successful cache.Load
LoadBeforeSave ==
    \A j \in Called("cache.Save") : \E i \in Called("cache.Load") : i < j /\ steps[i].ok

\* cache.Save comes after a successful WriteDelta
SaveAfterWriteDelta ==
    \A j \in Called("cache.Save") : \E i \in Called("WriteDelta") : i < j /\ steps[i].ok

\* index.json still holds the snapshot it held when the run started
BaselineKept == "oldSnapshot" \in cache0 => "oldSnapshot" \in oldCache

\* C27 as stated: in a DELTA run the previous snapshot is loaded before the
\* new one is saved, cache.Save runs only after WriteDelta succeeded, and
\* when file collection, snapshot loading, diff building or WriteDelta
\* fails index.json still holds the previous snapshot.
C27_AsStated ==
    RunIn("delta") =>
        /\ LoadBeforeSave
        /\ SaveAfterWriteDelta
        /\ FailedIn({"collectFiles", "cache.Load", "MakeDiffs", "WriteDelta"}) => BaselineKept

\* C27: the baseline survives a failed DELTA run made without -new.  In a
\* DELTA run cache.Load precedes cache.Save and cache.Save runs only after
\* WriteDelta succeeded; when file collection fails, or when snapshot
\* loading, diff building or WriteDelta fails in a run without -new,
\* index.json still holds the previous snapshot.  Under -new cache.Clear
\* has removed it before the snapshot is built, and a failure after that
\* leaves no index.json.
C27_BaselineSurvivesFailure ==
    RunIn("delta") =>
        /\ LoadBeforeSave
        /\ SaveAfterWriteDelta
        /\ FailedIn({"collectFiles"}) => BaselineKept
        /\ (~args.resetCache /\ FailedIn({"cache.Load", "MakeDiffs", "WriteDelta"})) => BaselineKept
        /\ (args.resetCache /\ FailedIn({"cache.Load", "MakeDiffs", "WriteDelta"}))
              => "oldSnapshot" \notin oldCache

\* A DELTA run without -new over a cache that holds a snapshot ends on the
\* error of WriteDelta, after the previous snapshot was loaded.
C27_Witness ==
    /\ RunIn("delta")
    /\ ~args.resetCache
    /\ "oldSnapshot" \in cache0
    /\ FailedIn({"WriteDelta"})
    /\ \E i \in Called("cache.Load") : steps[i].ok
    /\ "oldSnapshot" \in oldCache

ValidationFailed ==
    \E i \in Called("validate.Manifest") \cup Called("validate.Symbols") : ~steps[i].ok

-----------------------------------------------------------------------------
(* cmd/class-collector: a DELTA run after a FULL run                       *)

MaxFileSize == 2    \* largest file, in bytes

FollowHashes == 1..2

FollowExts == {<<".", "g", "o">>, <<".", "j", "a", "v", "a">>}

\* a file of the tree, or absent
TreeEntries ==
    {[present |-> FALSE, Hash |-> 0, Ext |-> <<>>, Size |-> 0]}
        \cup [present : {TRUE}, Hash : FollowHashes, Ext : FollowExts, Size : 1..MaxFileSize]

\* -lang, -max-bytes, -max-file-bytes as given to both runs
FollowFlags == [langHints : LangHintSets, maxBytes : {0, 2}, maxFileBytes : {0, 1}]

\* ---- walkwalk.CollectFiles / handleFile (fswalk.go:157-187) ----
\* The walk visits the paths in ascending order; a file over the per-file
\* cap, or that would take the total over maxBytes, is left out.
RECURSIVE walkFiles(_, _, _, _, _)
walkFiles(tree, p, total, maxBytes, maxFileBytes) ==
    IF p > Len(tree) THEN <<>>
    ELSE LET e == tree[p]
         IN  IF ~e.present \/ (maxFileBytes > 0 /\ e.Size > maxFileBytes)
                \/ (maxBytes > 0 /\ total + e.Size > maxBytes)
             THEN walkFiles(tree, p + 1, total, maxBytes, maxFileBytes)
             ELSE <<[RelPath |-> p, SHA256Hex |-> e.Hash, Ext |-> e.Ext, Size |-> e.Size]>>
                  \o walkFiles(tree, p + 1, total + e.Size, maxBytes, maxFileBytes)

\* ---- collectFiles (main.go:388) ----
collectFiles(tree, flags, totalBudget) == walkFiles(tree, 1, 0, totalBudget, flags.maxFileBytes)

\* ---- gatherSymbolsIndex / processFile (manifest.go:122-139, 167-171, 190-200) ----
\* the manifest files: a file whose language is not among the hints is left out
manifestFiles(files, langHints) ==
    LET kept == SelectSeq(files, LAMBDA f : langHints = {} \/ InferLangByExt(f.Ext) \in langHints)
    IN  [i \in 1..Len(kept) |-> SnapFile(kept[i].RelPath, kept[i].SHA256Hex)]

\* ---- persistSnapshotOnFull (main.go:449): the snapshot of man.Files ----
persistSnapshotOnFull(manFiles) == [isNil |-> FALSE, Files |-> manFiles]

\* ---- buildSnapshot (main.go:484): every collected file ----
buildSnapshot(files) ==
    [isNil |-> FALSE,
     Files |-> SortByPath([i \in 1..Len(files) |-> SnapFile(files[i].RelPath, files[i].SHA256Hex)])]

\* ---- runFull (main.go:254-292) with -save-snapshot, every write succeeding ----
RunFull ==
    /\ flpc = "start"
    /\ LET files == collectFiles(flTree, flFlags, flFlags.maxBytes)
       IN  IF Len(files) = 0
           THEN flpc' = "nofiles" /\ UNCHANGED flIndex
           ELSE /\ flIndex' = persistSnapshotOnFull(manifestFiles(files, flFlags.langHints))
                /\ flpc' = "full_done"
    /\ UNCHANGED <<flTree, flFlags, flDelta>>
    /\ UNCHANGED nonFollowVars

\* ---- runDelta (main.go:294-359), every write succeeding ----
RunDelta ==
    /\ flpc = "full_done"
    /\ LET files == collectFiles(flTree, flFlags, 0)
           snap  == buildSnapshot(files)
           prv   == flIndex
       IN  IF Len(files) = 0
           THEN flpc' = "nofiles" /\ UNCHANGED <<flIndex, flDelta>>
           ELSE /\ \E itPrev \in Perms(KeysOf(prv.Files)), itCurr \in Perms(KeysOf(snap.Files)) :
                      flDelta' = BuildDelta(prv, snap, itPrev, itCurr, FALSE, DefaultSimThresh, "none")
                /\ flIndex' = snap
                /\ flpc' = "delta_done"
    /\ UNCHANGED <<flTree, flFlags>>
    /\ UNCHANGED nonFollowVars

InitFollow ==
    /\ flTree \in [1..NPaths -> TreeEntries]
    /\ flFlags \in FollowFlags
    /\ flIndex = NilSnapshot
    /\ flDelta = EmptyDelta
    /\ flpc = "start"
    /\ DeltaIdle
    /\ IndexIdle
    /\ PathIdle
    /\ CacheIdle
    /\ MainIdle
    /\ BundleIdle
    /\ ChatIdle
    /\ FullIdle
    /\ SliceIdle
    /\ AutoIdle
    /\ GatherIdle
    /\ DiffsIdle
    /\ RenameIdle
    /\ AnchorIdle
    /\ UniqIdle

NextFollow == RunFull \/ RunDelta

SpecFollow == InitFollow /\ [][NextFollow]_vars

\* C30: a DELTA run directly after a successful FULL run with snapshot
\* saving on, over the same tree and with the same selection flags, reports
\* an empty delta: nothing added, removed, changed or renamed.
C30_UnchangedTreeEmptyDelta ==
    flpc = "delta_done" => flDelta = EmptyDelta

====
